---------------------------- MODULE Spec2Model ----------------------------
(***************************************************************************)
(* A model of the scale-bar engine of matplotlib-map-utils                 *)
(* (src/matplotlib_map_utils/core/scale_bar.py and the validation and      *)
(* defaults tables it imports).                                            *)
(*                                                                         *)
(* Python floats are modelled as exact rationals <<numerator, denominator>> *)
(* with a positive denominator, kept in lowest terms; the equalities the   *)
(* claims state "to within floating-point tolerance" are the exact ones.   *)
(* Python's None in a numeric position is the pair <<0, 0>>.               *)
(***************************************************************************)
EXTENDS Integers, Sequences, FiniteSets, TLC

VARIABLES pc, op, args, ret, warns

vars == <<pc, op, args, ret, warns>>

---------------------------------------------------------------------------
(* Exact arithmetic standing for Python's float arithmetic.                *)

None == <<0, 0>>

IsNone(x) == x[2] = 0

Abs(n) == IF n < 0 THEN -n ELSE n

RECURSIVE GCD(_, _)
GCD(a, b) == IF b = 0 THEN a ELSE GCD(b, a % b)

Norm(n, d) ==
    LET g == GCD(Abs(n), Abs(d))
        s == IF d < 0 THEN -1 ELSE 1
    IN  <<(s * n) \div g, (s * d) \div g>>

R(n) == <<n, 1>>

Frac(n, d) == Norm(n, d)

RAdd(a, b) == Norm(a[1] * b[2] + b[1] * a[2], a[2] * b[2])

RSub(a, b) == Norm(a[1] * b[2] - b[1] * a[2], a[2] * b[2])

RMul(a, b) == Norm(a[1] * b[1], a[2] * b[2])

\* a / b for b # 0 (the callers test b = 0 first: Python raises there)
RDiv(a, b) == Norm(a[1] * b[2], a[2] * b[1])

RLt(a, b) == a[1] * b[2] < b[1] * a[2]

RLe(a, b) == a[1] * b[2] <= b[1] * a[2]

RIsZero(a) == a[1] = 0

RAbs(a) == <<Abs(a[1]), a[2]>>

\* floor(a) as an integer
RFloor(a) == a[1] \div a[2]

\* Python's a % b for b > 0: a - b * floor(a / b)
RMod(a, b) == RSub(a, RMul(b, R(RFloor(RDiv(a, b)))))

RIsWhole(a) == a[2] = 1

RECURSIVE Pow10(_)
Pow10(k) == IF k = 0 THEN 1 ELSE 10 * Pow10(k - 1)

RECURSIVE RSum(_)
RSum(s) == IF s = <<>> THEN R(0) ELSE RAdd(Head(s), RSum(Tail(s)))

\* Round half to even at p decimals: what the "f" presentation type prints
RoundTo(a, p) ==
    LET x  == RMul(a, R(Pow10(p)))
        f  == RFloor(x)
        r  == RSub(x, R(f))
        up == \/ RLt(Frac(1, 2), r)
              \/ (r = Frac(1, 2) /\ f % 2 = 1)
    IN  Frac(IF up THEN f + 1 ELSE f, Pow10(p))

---------------------------------------------------------------------------
(* Python values that reach a label: None, bool, int, float, str.          *)
(* A str is either literal text (p = -1, v its identity) or the decimal    *)
(* rendering of the number v with p digits after the point.                *)

PyNone == [t |-> "None", v |-> None, p |-> -1]

PyUnset == [t |-> "unset", v |-> None, p |-> -1]

PyBool(b) == [t |-> "bool", v |-> R(IF b THEN 1 ELSE 0), p |-> -1]

PyInt(n) == [t |-> "int", v |-> R(n), p |-> -1]

PyFloat(x) == [t |-> "float", v |-> x, p |-> -1]

PyText(id) == [t |-> "str", v |-> R(id), p |-> -1]

PyNumStr(x, p) == [t |-> "str", v |-> x, p |-> p]

IsNumeric(x) == x.t \in {"bool", "int", "float"}

PointsPerInch == 72

\* digits after the point of a format string such as ".2f"
Decimals(fmt) ==
    CASE fmt = ".0f" -> 0
      [] fmt = ".1f" -> 1
      [] fmt = ".2f" -> 2
      [] fmt = ".3f" -> 3

\* _format_numeric(val, fmt, integer_override)
FormatNumeric(val, fmt, integer_override) ==
    IF fmt = "None" \/ fmt = ""
    THEN val
    ELSE IF \/ (integer_override = TRUE /\ val.t = "int")
            \/ (val.t = "float" /\ RIsZero(RMod(val.v, R(1))))
         THEN PyNumStr(R(RFloor(val.v)), 0)
         ELSE PyNumStr(RoundTo(val.v, Decimals(fmt)), Decimals(fmt))


---------------------------------------------------------------------------
(* _expand_list(seq, length, how): the expanded list.  "nfill" works on a  *)
(* copy of seq (seq.copy()), so the caller's list is left as it was; the   *)
(* second component is the caller's list after the call.                   *)

ExpandListCycle(seq, length) ==
    [i \in 1..length |-> seq[((i - 1) % Len(seq)) + 1]]

\* seq.copy() left out: the caller's list is the one that is filled
ExpandListNfillInPlace(seq, length) ==
    [out  |-> seq \o [i \in 1..(IF length > Len(seq) THEN length - Len(seq) ELSE 0) |-> PyNone],
     seq  |-> seq \o [i \in 1..(IF length > Len(seq) THEN length - Len(seq) ELSE 0) |-> PyNone]]

ExpandListNfill(seq, length) ==
    [out  |-> seq \o [i \in 1..(IF length > Len(seq) THEN length - Len(seq) ELSE 0) |-> PyNone],
     seq  |-> seq]

---------------------------------------------------------------------------
(* _config_seg                                                             *)

Seg(w, l, v, ty, lab) ==
    [width |-> w, length |-> l, value |-> v, type |-> ty, label |-> lab]

\* minor_div <= 1 or minor_type == "none": one segment per major break
SegsMajorOnly(bar_max, major_width, major_div) ==
    [i \in 1..(major_div + 1) |->
        Seg(major_width, major_width,
            PyFloat(RMul(R(i - 1), RDiv(bar_max, R(major_div)))),
            "major", PyUnset)]

\* minor_type == "first": minors, the bridging major, the spacer, the majors
SegsFirst(bar_max, major_width, major_div, minor_div) ==
    LET mnw == RDiv(major_width, R(minor_div))
        spw == RMul(mnw, RDiv(R(minor_div - 1), R(2)))
    IN  [i \in 1..minor_div |->
            Seg(mnw, mnw,
                PyFloat(RMul(R(i - 1), RDiv(RDiv(bar_max, R(major_div)), R(minor_div)))),
                "minor", PyUnset)]
        \o <<Seg(major_width, mnw, PyFloat(RDiv(bar_max, R(major_div))), "major", PyUnset)>>
        \o <<Seg(spw, spw, PyInt(-1), "spacer", PyNone)>>
        \o (IF major_div > 1
            THEN [i \in 1..(major_div - 1) |->
                    Seg(major_width, major_width,
                        PyFloat(RMul(R(i + 1), RDiv(bar_max, R(major_div)))),
                        "major", PyUnset)]
            ELSE <<>>)

\* minor_type "all": minors everywhere, retagged major on a major break.
\* Only used when bar_max / major_div # 0 (the modulus raises otherwise).
SegsAll(bar_max, major_width, major_div, minor_div) ==
    LET mnw == RDiv(major_width, R(minor_div))
        val(d) == RMul(R(d), RDiv(bar_max, R(major_div * minor_div)))
    IN  [i \in 1..(minor_div * major_div + 1) |->
            Seg(mnw, mnw, PyFloat(val(i - 1)),
                IF RIsZero(RMod(val(i - 1), RDiv(bar_max, R(major_div))))
                THEN "major" ELSE "minor",
                PyUnset)]

\* lines 977-979: the first and the last segment are typed major
\* line 979 left out
ForceFirstMajorOnly(segs) ==
    [i \in 1..Len(segs) |->
        IF i = 1 THEN [segs[i] EXCEPT !.type = "major"] ELSE segs[i]]

ForceBoundaryMajor(segs) ==
    [i \in 1..Len(segs) |->
        IF i = 1 \/ i = Len(segs) THEN [segs[i] EXCEPT !.type = "major"] ELSE segs[i]]

\* lines 982-984: inches to points
ExpandWidths(segs) ==
    [i \in 1..Len(segs) |->
        [segs[i] EXCEPT !.width = RMul(@, R(PointsPerInch)),
                        !.length = RMul(@, R(PointsPerInch))]]

\* the index of the first segment typed minor, 0 when there is none
FirstMinor(segs) ==
    IF \E i \in 1..Len(segs) : segs[i].type = "minor"
    THEN CHOOSE i \in 1..Len(segs) :
            /\ segs[i].type = "minor"
            /\ \A j \in 1..(i - 1) : segs[j].type # "minor"
    ELSE 0

LabelMajor(segs) ==
    [i \in 1..Len(segs) |->
        [segs[i] EXCEPT !.label = IF segs[i].type = "major" THEN segs[i].value ELSE PyNone]]

\* the last index taken as len(segments)-2
LabelFirstLastShort(segs) ==
    [i \in 1..Len(segs) |->
        [segs[i] EXCEPT !.label = IF i = 1 \/ i = Len(segs) - 1 THEN segs[i].value ELSE PyNone]]

LabelFirstLast(segs) ==
    [i \in 1..Len(segs) |->
        [segs[i] EXCEPT !.label = IF i = 1 \/ i = Len(segs) THEN segs[i].value ELSE PyNone]]

LabelLastOnly(segs) ==
    [i \in 1..Len(segs) |->
        [segs[i] EXCEPT !.label = IF i = Len(segs) THEN segs[i].value ELSE PyNone]]

LabelMinorFirst(segs) ==
    [i \in 1..Len(segs) |->
        [segs[i] EXCEPT !.label =
            IF segs[i].type = "major" THEN segs[i].value
            ELSE IF segs[i].type = "minor" /\ i = FirstMinor(segs) THEN segs[i].value
            ELSE PyNone]]

LabelMinorAll(segs) ==
    [i \in 1..Len(segs) |->
        IF segs[i].type # "spacer" THEN [segs[i] EXCEPT !.label = segs[i].value] ELSE segs[i]]

\* lines 1008-1012: the single-segment override of last_only
\* line 1011 left out: the slice keeps the segment of value 0
CollapseKeepFirst(segs, major_div, minor_div) ==
    IF major_div = 1 /\ (minor_div = 1 \/ minor_div = 0)
    THEN <<segs[1]>>
    ELSE segs

CollapseLastOnly(segs, major_div, minor_div) ==
    IF major_div = 1 /\ (minor_div = 1 \/ minor_div = 0)
    THEN <<segs[2]>>
    ELSE segs

\* lines 986-1028
AssignLabels(segs, label_style, major_div, minor_div) ==
    CASE label_style = "major"       -> LabelMajor(segs)
      [] label_style = "first_last"  -> LabelFirstLast(segs)
      [] label_style = "last_only"   -> CollapseLastOnly(LabelLastOnly(segs), major_div, minor_div)
      [] label_style = "minor_first" -> LabelMinorFirst(segs)
      [] label_style = "minor_all"   -> LabelMinorAll(segs)

\* lines 1045-1050: what one custom entry makes of a label
CustomLabel(entry, format_str, format_int) ==
    IF (IsNumeric(entry) /\ entry.v = R(1)) \/ IsNumeric(entry)
    THEN FormatNumeric(entry, format_str, format_int)
    ELSE IF (IsNumeric(entry) /\ entry.v = R(0)) \/ entry.t = "None"
         THEN PyNone
         ELSE entry

\* lines 1042-1051: the i-th entry goes to the i-th segment that has a label
RECURSIVE ApplyCustom(_, _, _, _, _)
ApplyCustom(segs, labels, i, format_str, format_int) ==
    IF segs = <<>> THEN <<>>
    ELSE IF Head(segs).label # PyNone
         THEN <<[Head(segs) EXCEPT !.label = CustomLabel(labels[i], format_str, format_int)]>>
              \o ApplyCustom(Tail(segs), labels, i + 1, format_str, format_int)
         ELSE <<Head(segs)>> \o ApplyCustom(Tail(segs), labels, i, format_str, format_int)

\* lines 1054-1058: with no custom labels every label is formatted
FormatLabels(segs, format_str, format_int) ==
    [i \in 1..Len(segs) |->
        IF segs[i].label = PyNone THEN segs[i]
        ELSE [segs[i] EXCEPT !.label = FormatNumeric(@, format_str, format_int)]]

NumLabels(segs) == Cardinality({i \in 1..Len(segs) : segs[i].label # PyNone})

\* labels is [none |-> TRUE] for None, else [none |-> FALSE, items |-> the list]
NoLabels == [none |-> TRUE, items |-> <<>>]

LabelList(items) == [none |-> FALSE, items |-> items]

ConfigSeg(bar_max, major_width, major_div, minor_div, minor_type, label_style, labels, format_str, format_int) ==
    IF ~(minor_div <= 1 \/ minor_type = "none") /\ minor_type # "first"
       /\ RIsZero(RDiv(bar_max, R(major_div)))
    THEN [err |-> "ZeroDivisionError", segments |-> <<>>, warns |-> <<>>, labels |-> labels]
    ELSE
    LET built == IF minor_div <= 1 \/ minor_type = "none"
                 THEN SegsMajorOnly(bar_max, major_width, major_div)
                 ELSE IF minor_type = "first"
                      THEN SegsFirst(bar_max, major_width, major_div, minor_div)
                      ELSE SegsAll(bar_max, major_width, major_div, minor_div)
        sized == ExpandWidths(ForceBoundaryMajor(built))
        labelled == AssignLabels(sized, label_style, major_div, minor_div)
        n == NumLabels(labelled)
        ex == ExpandListNfill(labels.items, n)
    IN  IF labels.none
        THEN [err |-> "none",
              segments |-> FormatLabels(labelled, format_str, format_int),
              warns |-> <<>>, labels |-> labels]
        ELSE [err |-> "none",
              segments |-> ApplyCustom(labelled, ex.out, 1, format_str, format_int),
              warns |-> IF n < Len(labels.items) THEN <<"more_labels">>
                        ELSE IF n > Len(labels.items) THEN <<"fewer_labels">>
                        ELSE <<>>,
              labels |-> LabelList(ex.seq)]

---------------------------------------------------------------------------
(* scale_bar: the boxes drawn for the segments                             *)

\* lines 371-374: box_widths
BoxWidths(segments) ==
    LET kept == SelectSeq(SubSeq(segments, 1, Len(segments) - 1),
                          LAMBDA sg : sg.type /= "spacer")
    IN  IF Len(kept) = 0 THEN <<segments[1].width>>
        ELSE [i \in 1..Len(kept) |-> kept[i].width]

---------------------------------------------------------------------------
(* _config_bar_length                                                      *)

\* validation/scale_bar.py: preferred_divs, in the order of its keys
PreferredMaxes ==
    <<R(2), Frac(5, 2), R(3), R(4), R(5), R(6), R(7), R(8), R(9), R(10)>>

PreferredDivs(m) ==
    CASE m = R(2)       -> <<4, 2>>
      [] m = Frac(5, 2) -> <<5, 1>>
      [] m = R(3)       -> <<3, 3>>
      [] m = R(4)       -> <<4, 2>>
      [] m = R(5)       -> <<5, 1>>
      [] m = R(6)       -> <<3, 2>>
      [] m = R(7)       -> <<2, 1>>
      [] m = R(8)       -> <<4, 2>>
      [] m = R(9)       -> <<3, 3>>
      [] m = R(10)      -> <<5, 2>>

PassThrough == {"px", "pixel", "pixels", "pt", "point", "points", "dx", "custom", "axis"}

MagSearchLimit == 23

\* the loop of lines 896-900 never advancing
UnitsMagStuck(bar_max, k) == k

\* lines 896-900: the for loop over range(0, 23), entered with units_mag = k
RECURSIVE UnitsMag(_, _)
UnitsMag(bar_max, k) ==
    IF k = MagSearchLimit THEN k
    ELSE IF RLt(Frac(3, 2), RDiv(bar_max, R(Pow10(k + 1))))
         THEN UnitsMag(bar_max, k + 1)
         ELSE k

\* math.sqrt((m - x)**2)
Dist(m, x) == RAbs(RSub(m, x))

\* lines 903-912: sorted(zip(max_rms, preferred_maxes))[0], the least
\* (distance, value) pair
BestMax(x) ==
    LET ms == {PreferredMaxes[i] : i \in 1..Len(PreferredMaxes)}
    IN  CHOOSE m \in ms :
            \A o \in ms : \/ RLt(Dist(m, x), Dist(o, x))
                          \/ (Dist(m, x) = Dist(o, x) /\ RLe(m, o))

\* lines 846-859: the one warning of the if/elif chain, and bar_length after it
LengthPrecheck(bar_max, bar_length, bar_major_mult, bar_major_div, ax_inches, bar_projection) ==
    IF ~IsNone(bar_length) /\ ~IsNone(bar_max)
    THEN [warns |-> <<"max_and_length">>, bar_length |-> bar_length]
    ELSE IF (~IsNone(bar_max) \/ ~IsNone(bar_length)) /\ ~IsNone(bar_major_mult)
    THEN [warns |-> <<"major_mult_ignored">>, bar_length |-> bar_length]
    ELSE IF ~IsNone(bar_length) /\ ~IsNone(bar_major_div)
    THEN [warns |-> <<"major_div_ignored">>, bar_length |-> bar_length]
    ELSE IF ~IsNone(bar_length) /\ RLt(ax_inches, bar_length)
    THEN [warns |-> <<"length_exceeds_axis">>, bar_length |-> Frac(1, 4)]
    ELSE IF bar_projection \in PassThrough /\ ~IsNone(bar_length)
    THEN [warns |-> <<"length_with_passthrough">>, bar_length |-> bar_length]
    ELSE IF ~IsNone(bar_major_mult) /\ IsNone(bar_major_div)
    THEN [warns |-> <<"major_mult_without_div">>, bar_length |-> Frac(1, 4)]
    ELSE [warns |-> <<>>, bar_length |-> bar_length]

\* lines 880-883 and 927-930
MinorFromMajor(bar_major_div) == IF bar_major_div % 2 = 0 THEN 2 ELSE 1

\* lines 872-878
MajorFromMax(bar_max) ==
    IF RIsZero(RMod(bar_max, R(3))) THEN 3
    ELSE IF RIsZero(RMod(bar_max, R(2))) THEN 2
    ELSE 1

LengthRaise(e, w) ==
    [err |-> e, none |-> FALSE, bar_max |-> None, bar_length |-> None,
     major_div |-> 0, minor_div |-> 0, warns |-> w]

LengthNone(w) ==
    [err |-> "none", none |-> TRUE, bar_max |-> None, bar_length |-> None,
     major_div |-> 0, minor_div |-> 0, warns |-> w]

\* lines 937-941: the closing check and the returned tuple
LengthReturn(bar_max, bar_length, major_div, minor_div, ax_inches, ax_units, w) ==
    IF RIsZero(ax_inches) THEN LengthRaise("ZeroDivisionError", w)
    ELSE [err |-> "none", none |-> FALSE, bar_max |-> bar_max, bar_length |-> bar_length,
          major_div |-> major_div, minor_div |-> minor_div,
          warns |-> IF \/ RLt(Frac(9, 10), RDiv(bar_length, ax_inches))
                       \/ RLt(RMul(ax_units, Frac(9, 10)), bar_max)
                    THEN Append(w, "too_large") ELSE w]

\* lines 867-883: bar_max is given
LengthFromMax(bar_max, bar_major_div, ax_inches, ax_units, w) ==
    IF RIsZero(ax_units) THEN LengthRaise("ZeroDivisionError", w)
    ELSE LET major == IF IsNone(bar_major_div) THEN MajorFromMax(bar_max) ELSE bar_major_div[1]
         IN  LengthReturn(bar_max, RMul(ax_inches, RDiv(bar_max, ax_units)),
                          major, MinorFromMajor(major), ax_inches, ax_units, w)

\* lines 886-919: bar_length is given (or defaulted)
LengthFromLength(bar_length, ax_inches, ax_units, w) ==
    IF RIsZero(ax_inches) THEN LengthRaise("ZeroDivisionError", w)
    ELSE LET inches  == IF RLt(bar_length, R(1)) THEN RMul(ax_inches, bar_length) ELSE bar_length
             implied == RMul(ax_units, RDiv(inches, ax_inches))
             mag     == UnitsMag(implied, 0)
             best    == BestMax(RDiv(implied, R(Pow10(mag))))
             rounded == RMul(best, R(Pow10(mag)))
         IN  IF RIsZero(ax_units) THEN LengthRaise("ZeroDivisionError", w)
             ELSE LengthReturn(rounded, RMul(ax_inches, RDiv(rounded, ax_units)),
                               PreferredDivs(best)[1], PreferredDivs(best)[2],
                               ax_inches, ax_units, w)

\* lines 923-930: major_mult and major_div are given
LengthFromMult(bar_major_mult, bar_major_div, ax_inches, ax_units, w) ==
    IF RIsZero(ax_units) THEN LengthRaise("ZeroDivisionError", w)
    ELSE LengthReturn(RMul(bar_major_mult, bar_major_div),
                      RMul(ax_inches, RDiv(RMul(bar_major_mult, bar_major_div), ax_units)),
                      bar_major_div[1], MinorFromMajor(bar_major_div[1]),
                      ax_inches, ax_units, w)

\* the branches of lines 867 and 886 in the other order
ConfigBarLengthLengthFirst(bar_max, bar_length, bar_major_mult, bar_major_div, ax_inches, ax_units, bar_projection) ==
    LET pre == LengthPrecheck(bar_max, bar_length, bar_major_mult, bar_major_div,
                              ax_inches, bar_projection)
    IN  IF ~IsNone(pre.bar_length)
        THEN LengthFromLength(pre.bar_length, ax_inches, ax_units, pre.warns)
        ELSE IF ~IsNone(bar_max)
        THEN LengthFromMax(bar_max, bar_major_div, ax_inches, ax_units, pre.warns)
        ELSE LengthNone(Append(pre.warns, "length_error"))

ConfigBarLength(bar_max, bar_length, bar_major_mult, bar_major_div, ax_inches, ax_units, bar_projection) ==
    LET pre == LengthPrecheck(bar_max, bar_length, bar_major_mult, bar_major_div,
                              ax_inches, bar_projection)
        len == IF /\ IsNone(bar_max) /\ IsNone(pre.bar_length)
                  /\ IsNone(bar_major_mult) /\ IsNone(bar_major_div)
               THEN Frac(1, 4) ELSE pre.bar_length
    IN  IF ~IsNone(bar_max)
        THEN LengthFromMax(bar_max, bar_major_div, ax_inches, ax_units, pre.warns)
        ELSE IF ~IsNone(len)
        THEN LengthFromLength(len, ax_inches, ax_units, pre.warns)
        ELSE IF ~IsNone(bar_major_div) /\ ~IsNone(bar_major_mult)
        THEN LengthFromMult(bar_major_mult, bar_major_div, ax_inches, ax_units, pre.warns)
        ELSE LengthNone(Append(pre.warns, "length_error"))

---------------------------------------------------------------------------
(* _config_bar_vert, _config_bar_dim, _config_bar                          *)

\* validation/scale_bar.py: convert_dict, everything relative to the metre
ConvertDict(u) ==
    CASE u = "m"   -> R(1)
      [] u = "ft"  -> Frac(3048, 10000)
      [] u = "yd"  -> Frac(9144, 10000)
      [] u = "mi"  -> Frac(160934, 100)
      [] u = "nmi" -> R(1852)
      [] u = "km"  -> R(1000)

NoUnit == "<None>"

\* validation/scale_bar.py: units_standard, with .get()'s None for a missing key
UnitsStandard(u) ==
    IF u \in {"ft", "ftUS", "foot", "feet", "US survey foot"} THEN "ft"
    ELSE IF u \in {"yd", "yard", "yards"} THEN "yd"
    ELSE IF u \in {"mi", "mile", "miles"} THEN "mi"
    ELSE IF u \in {"nmi", "nautical", "nautical mile", "nautical miles"} THEN "nmi"
    ELSE IF u \in {"m", "meter", "metre", "meters", "metres"} THEN "m"
    ELSE IF u \in {"km", "kilometer", "kilometers", "kilometre", "kilometres"} THEN "km"
    ELSE NoUnit

\* pyproj.CRS(bar_projection).axis_info[i].unit_name, for the projections used
CrsUnitName(bar_projection) ==
    CASE bar_projection = "EPSG:3857" -> "metre"
      [] bar_projection = "EPSG:2263" -> "US survey foot"
      [] bar_projection = "EPSG:4326" -> "degree"
      [] bar_projection = "EPSG:3167" -> "British chain (Benoit 1895 B)"

\* the projections pyproj.CRS() makes a CRS of; of anything else, None
\* included, it raises CRSError
KnownCRS == {"EPSG:3857", "EPSG:2263", "EPSG:4326", "EPSG:3167"}

\* int(round(degrees/90, 0)) is odd
ConfigBarVert(degrees) == RFloor(RoundTo(RDiv(degrees, R(90)), 0)) % 2 /= 0

MetresPerKm == 1000
FeetPerMile == 5280
UpgradeFactor == 5

\* the thresholds taken as inclusive
AtLeast(ax_range, limit) == RLe(R(limit), ax_range)

\* the comparisons of lines 818 and 822
Exceeds(ax_range, limit) == RLt(R(limit), ax_range)

DimNone(w) ==
    [err |-> "none", none |-> TRUE, ax_inches |-> None, ax_units |-> None,
     units_label |-> "", warns |-> w]

DimRaise(e) ==
    [err |-> e, none |-> FALSE, ax_inches |-> None, ax_units |-> None,
     units_label |-> "", warns |-> <<>>]

DimReturn(ax_inches, ax_units, units_label, w) ==
    [err |-> "none", none |-> FALSE, ax_inches |-> ax_inches, ax_units |-> ax_units,
     units_label |-> units_label, warns |-> w]

\* lines 759-772: the projections that name no CRS
DimPassThrough(ax, ax_inches, ax_range, bar_projection, bar_unit) ==
    LET w == IF bar_unit /= NoUnit THEN <<"unit_ignored">> ELSE <<>>
    IN  DimReturn(ax_inches,
                  IF bar_projection \in {"px", "pixel", "pixels"} THEN RMul(ax_inches, ax.dpi)
                  ELSE IF bar_projection \in {"pt", "point", "points"}
                       THEN RMul(ax_inches, R(PointsPerInch))
                       ELSE ax_range,
                  "", w)

\* lines 803-838: the unit of the result and the range in it
DimConvert(ax_inches, ax_range, units_proj, bar_unit, w) ==
    LET units_user == UnitsStandard(bar_unit)
    IN  IF units_user = NoUnit
        THEN IF units_proj = "m" /\ Exceeds(ax_range, MetresPerKm * UpgradeFactor)
             THEN DimReturn(ax_inches, RDiv(ax_range, R(MetresPerKm)), "km", w)
             ELSE IF units_proj = "ft" /\ Exceeds(ax_range, FeetPerMile * UpgradeFactor)
             THEN DimReturn(ax_inches, RDiv(ax_range, R(FeetPerMile)), "mi", w)
             ELSE DimReturn(ax_inches, ax_range, units_proj, w)
        ELSE IF units_user /= units_proj
             THEN DimReturn(ax_inches,
                            RMul(ax_range, RDiv(ConvertDict(units_proj), ConvertDict(units_user))),
                            units_user, w)
             ELSE DimReturn(ax_inches, ax_range, units_user, w)

\* ax: the extent of the axes patch in pixels, the figure's dpi, the span of
\* the limits on each axis and (for a geographic CRS) the great-circle length
\* in metres of the mid-line of each axis.
ConfigBarDim(ax, bar_vertical, bar_projection, bar_unit) ==
    LET ax_inches == RDiv(IF bar_vertical THEN ax.height_px ELSE ax.width_px, ax.dpi)
        ax_range  == IF bar_vertical THEN ax.yrange ELSE ax.xrange
    IN  IF bar_projection \in PassThrough
        THEN DimPassThrough(ax, ax_inches, ax_range, bar_projection, bar_unit)
        ELSE IF bar_projection \notin KnownCRS THEN DimRaise("CRSError")
        ELSE LET unit_name == CrsUnitName(bar_projection)
             IN  IF unit_name = "degree"
                 THEN DimConvert(ax_inches,
                                 IF bar_vertical THEN ax.ymetres ELSE ax.xmetres,
                                 "m", bar_unit, <<"degrees">>)
                 ELSE IF UnitsStandard(unit_name) = NoUnit
                      THEN DimNone(<<"invalid_projection_units">>)
                      ELSE DimConvert(ax_inches, ax_range, UnitsStandard(unit_name),
                                      bar_unit, <<>>)

BarRaise(e, w) ==
    [err |-> e, bar_max |-> None, bar_length |-> None, units_label |-> "",
     major_div |-> 0, minor_div |-> 0, warns |-> w]

\* line 711 onwards, once the dimensions are known
BarFromDim(bar, dim) ==
    IF {"max", "length", "major_mult", "major_div", "projection"} \ DOMAIN bar /= {}
    THEN BarRaise("KeyError", dim.warns)
    ELSE LET len == ConfigBarLength(bar.max, bar.length, bar.major_mult, bar.major_div,
                                    dim.ax_inches, dim.ax_units, bar.projection)
             w   == dim.warns \o len.warns
         IN  IF len.err /= "none" THEN BarRaise(len.err, w)
             ELSE IF len.none THEN BarRaise("TypeError", w)
             ELSE IF "minor_div" \notin DOMAIN bar THEN BarRaise("KeyError", w)
             ELSE [err |-> "none", bar_max |-> len.bar_max, bar_length |-> len.bar_length,
                   units_label |-> dim.units_label, major_div |-> len.major_div,
                   minor_div |-> IF ~IsNone(bar.minor_div) THEN bar.minor_div[1]
                                 ELSE len.minor_div,
                   warns |-> w]

\* bar: the dictionary, a function from the keys it has to their values
ConfigBar(ax, bar) ==
    IF {"rotation", "projection", "unit"} \ DOMAIN bar /= {}
    THEN BarRaise("KeyError", <<>>)
    ELSE LET dim == ConfigBarDim(ax, ConfigBarVert(bar.rotation), bar.projection, bar.unit)
         IN  IF dim.err /= "none" THEN BarRaise(dim.err, dim.warns)
             ELSE IF dim.none THEN BarRaise("TypeError", dim.warns)
             ELSE BarFromDim(bar, dim)

---------------------------------------------------------------------------
(* scale_bar, lines 295-332: from the validated dictionaries to the bar    *)
(* configuration and the segments.  A dictionary is a function from the    *)
(* keys it has to their values; only the keys these lines read are kept.   *)
(* An argument that may be None is [given |-> FALSE] or                    *)
(* [given |-> TRUE, d |-> the dictionary].                                 *)

NoDict == [given |-> FALSE]

Dict(d) == [given |-> TRUE, d |-> d]

\* default_dict | input_dict
Merge(d, e) == [k \in (DOMAIN d) \cup (DOMAIN e) |-> IF k \in DOMAIN e THEN e[k] ELSE d[k]]

DelKeys(d, to_remove) == [k \in (DOMAIN d) \ to_remove |-> d[k]]

\* validation/functions.py, _validate_dict: None gives the default dictionary
\* itself, a dictionary gives a new one cut down to the keys that are validated
ValidateDict(input_dict, default_dict, keys) ==
    IF ~input_dict.given THEN default_dict
    ELSE LET values == Merge(default_dict, input_dict.d)
         IN  [k \in (DOMAIN values) \cap keys |-> values[k]]

LabelsKeys == {"labels", "format", "format_int", "style", "fontsize", "textcolors"}

UnitsKeys == {"label", "fontsize", "textcolor"}

TextKeys == {"fontsize", "textcolor"}

\* rcParams["font.size"] x font_scalings["small"], 10 x 0.833
SmallFont == PyFloat(Frac(833, 100))

ConvertFontSize(font_size) == IF font_size.t = "str" THEN SmallFont ELSE font_size

\* lines 308-310, on one dictionary: the assignment is made in place
ConvertFontIn(d) ==
    IF "fontsize" \in DOMAIN d THEN [d EXCEPT !["fontsize"] = ConvertFontSize(@)] ELSE d

ComputeRaise(e, w) ==
    [err |-> e, bar_max |-> None, bar_length |-> None, units_label |-> "",
     major_div |-> 0, minor_div |-> 0, segments |-> <<>>, warns |-> w]

\* lines 330-332
ComputeSegments(cfg, bar, labels) ==
    IF cfg.major_div = 0 THEN [err |-> "ZeroDivisionError", labels |-> labels.labels]
    ELSE IF "minor_type" \notin DOMAIN bar THEN [err |-> "KeyError", labels |-> labels.labels]
    ELSE ConfigSeg(cfg.bar_max, RDiv(cfg.bar_length, R(cfg.major_div)), cfg.major_div,
                   cfg.minor_div, bar.minor_type, labels.style, labels.labels,
                   labels.format, labels.format_int)

\* lines 295-317 on the heap: the axes, the dictionary _bar, the arguments
\* labels, units and text, and the module's default dictionaries.  Gives
\* _labels, and the heap with what line 310 wrote to a default dictionary.
ComputeDicts(heap) ==
    LET text1   == ConvertFontIn(ValidateDict(heap.text, heap.defaults.text, TextKeys))
        labels1 == ConvertFontIn(ValidateDict(heap.labels, heap.defaults.labels, LabelsKeys))
        units1  == ConvertFontIn(ValidateDict(heap.units, heap.defaults.units, UnitsKeys))
        text2   == Merge(text1, [textcolors |-> text1.textcolor])
    IN  [labels |-> Merge(DelKeys(text2, {"textcolor"}), labels1),
         units  |-> Merge(text1, units1),
         heap   |-> [heap EXCEPT
                        !.defaults.labels = IF heap.labels.given THEN @ ELSE labels1,
                        !.defaults.units  = IF heap.units.given THEN @ ELSE units1]]

\* the list _config_seg was given is the caller's own: what the call left in
\* it is left in the dictionary it came from
ComputeLeaves(heap, labels) ==
    IF heap.labels.given /\ "labels" \in DOMAIN heap.labels.d
    THEN [heap EXCEPT !.labels.d.labels = labels]
    ELSE IF heap.labels.given THEN heap
    ELSE [heap EXCEPT !.defaults.labels.labels = labels]

\* what lines 327-332 yield from the outcomes of the two calls
ComputeResult(cfg, seg) ==
    IF seg.err /= "none" THEN ComputeRaise(seg.err, cfg.warns)
    ELSE [err |-> "none", bar_max |-> cfg.bar_max, bar_length |-> cfg.bar_length,
          units_label |-> cfg.units_label,
          major_div |-> cfg.major_div, minor_div |-> cfg.minor_div,
          segments |-> seg.segments, warns |-> cfg.warns \o seg.warns]

ComputeSeg(dicts, cfg, seg) ==
    [out |-> ComputeResult(cfg, seg), heap |-> ComputeLeaves(dicts.heap, seg.labels)]

ComputeBar(bar, dicts, cfg) ==
    IF cfg.err /= "none"
    THEN [out |-> ComputeRaise(cfg.err, cfg.warns), heap |-> dicts.heap]
    ELSE ComputeSeg(dicts, cfg, ComputeSegments(cfg, bar, dicts.labels))

\* the result is what the lines compute (out) and the heap they leave behind
Compute(heap) == ComputeBar(heap.bar, ComputeDicts(heap), ConfigBar(heap.ax, heap.bar))

---------------------------------------------------------------------------
(* dual_bars and _align_dual.  Of the image of the packed bars only the    *)
(* two sampled lines are kept: line 1 runs through children[0], line 2     *)
(* through children[1], both along the axis the bars are aligned on.       *)
(* A pixel is <<r, g, b, a>>; index 1 is the left (horizontal bars) or the *)
(* top (vertical bars) of the image.                                       *)

AlphaThreshold == 20

\* lines 1296 and 1299: a pixel of the padding
Blank == <<255, 0, 0, 0>>

Repeat(px, n) == [i \in 1..n |-> px]

\* numpy.flip along the axis of the pixels
FlipPixels(line) == [i \in 1..Len(line) |-> line[Len(line) + 1 - i]]

\* numpy.flip along the axis of the channels
FlipChannels(line) ==
    [i \in 1..Len(line) |-> <<line[i][4], line[i][3], line[i][2], line[i][1]>>]

\* lines 639-643: VPacker for horizontal bars, HPacker for vertical ones
PackAlign(bar_vertical, reverse) ==
    IF reverse THEN (IF bar_vertical THEN "top" ELSE "right")
    ELSE (IF bar_vertical THEN "bottom" ELSE "left")

\* matplotlib.offsetbox: 'left' and 'top' put a child at the first index of
\* the packed extent, 'right' and 'bottom' at the last
PackLine(child, align, total, bg) ==
    LET off == IF align \in {"left", "top"} THEN 0 ELSE total - Len(child)
    IN  Repeat(bg, off) \o child \o Repeat(bg, total - Len(child) - off)

ClearBefore(line) ==
    IF \E i \in 1..Len(line) : line[i][4] /= 0
    THEN (CHOOSE i \in 1..Len(line) :
              line[i][4] /= 0 /\ \A j \in 1..(i - 1) : line[j][4] = 0) - 1
    ELSE Len(line)

MinOf(a, b) == IF a < b THEN a ELSE b

MaxOf(a, b) == IF a < b THEN b ELSE a

\* line 1327: img.crop(img.getbbox())
Crop(lines) ==
    LET lead  == MinOf(ClearBefore(lines[1]), ClearBefore(lines[2]))
        trail == MinOf(ClearBefore(FlipPixels(lines[1])), ClearBefore(FlipPixels(lines[2])))
        n     == Len(lines[1])
    IN  IF lead = n THEN lines
        ELSE <<SubSeq(lines[1], lead + 1, n - trail), SubSeq(lines[2], lead + 1, n - trail)>>

\* lines 1241-1245: the packed artist rendered on a canvas cleared to bg
RenderPack(children, bar_vertical, reverse, bg) ==
    LET total == MaxOf(Len(children[1]), Len(children[2]))
        align == PackAlign(bar_vertical, reverse)
    IN  Crop(<<PackLine(children[1], align, total, bg),
               PackLine(children[2], align, total, bg)>>)

\* lines 1269-1278: the index of the first pixel with pt[3] > 20, or -1
FirstOpaque(slice) ==
    IF \E i \in 1..Len(slice) : slice[i][4] > AlphaThreshold
    THEN (CHOOSE i \in 1..Len(slice) :
              /\ slice[i][4] > AlphaThreshold
              /\ \A j \in 1..(i - 1) : ~(slice[j][4] > AlphaThreshold)) - 1
    ELSE -1

\* lines 1248-1267: the slice is (pixels, channels), and numpy.flip is given
\* axis = dim, 0 for horizontal bars and 1 for vertical ones
Sample(line, bar_vertical, reverse) ==
    FirstOpaque(IF reverse
                THEN (IF bar_vertical THEN FlipChannels(line) ELSE FlipPixels(line))
                ELSE line)

\* lines 1288-1305: the child to pad and the side the padding goes to
PadChild(children, diff, reverse) ==
    LET c   == IF diff < 0 THEN 2 ELSE 1
        pad == Repeat(Blank, Abs(diff))
    IN  [children EXCEPT ![c] = IF reverse THEN @ \o pad ELSE pad \o @]

AlignDual(children, bar_vertical, reverse, bg) ==
    LET img  == RenderPack(children, bar_vertical, reverse, bg)
        xtop == Sample(img[2], bar_vertical, reverse)
        xbot == Sample(img[1], bar_vertical, reverse)
    IN  IF xtop = -1 \/ xbot = -1 \/ xtop = xbot
        THEN [children |-> children, xtop |-> xtop, xbot |-> xbot]
        ELSE [children |-> PadChild(children, xtop - xbot, reverse),
              xtop |-> xtop, xbot |-> xbot]

---------------------------------------------------------------------------
(* Inputs                                                                  *)

MaxMajorDiv == 3
MaxMinorDiv == 3
MaxBarMaxHalves == 3
MaxWidthHalves == 2

BarMaxes == {Frac(n, 2) : n \in 0..MaxBarMaxHalves}

MajorWidths == {Frac(n, 2) : n \in 1..MaxWidthHalves}

MinorTypes == {"none", "first", "all"}

LabelStyles == {"major", "first_last", "last_only", "minor_first", "minor_all"}

Formats == {"None", "", ".1f"}

LabelInputs ==
    {NoLabels,
     LabelList(<<PyBool(TRUE), PyBool(FALSE)>>),
     LabelList(<<PyText(1), PyNone, PyFloat(Frac(5, 2))>>)}

---------------------------------------------------------------------------
(* The state machine.  A behaviour is one call: the initial state holds    *)
(* the function called (op) and its arguments (args), pc = "call"; the     *)
(* step runs the function and stores what it returns (ret), the warnings   *)
(* it emitted (warns), and pc = "done".                                    *)

NoRet == [err |-> "none"]

SegArgs ==
    [bar_max : BarMaxes, major_width : MajorWidths,
     major_div : 1..MaxMajorDiv, minor_div : 0..MaxMinorDiv,
     minor_type : MinorTypes, label_style : LabelStyles,
     labels : LabelInputs, format_str : Formats, format_int : BOOLEAN]

InitSeg ==
    /\ pc = "call"
    /\ op = "_config_seg"
    /\ args \in SegArgs
    /\ ret = NoRet
    /\ warns = <<>>

CallConfigSeg ==
    /\ pc = "call"
    /\ op = "_config_seg"
    /\ LET r == ConfigSeg(args.bar_max, args.major_width, args.major_div,
                          args.minor_div, args.minor_type, args.label_style,
                          args.labels, args.format_str, args.format_int)
       IN  /\ ret' = [err |-> r.err, segments |-> r.segments, labels |-> r.labels]
           /\ warns' = r.warns
    /\ pc' = "done"
    /\ UNCHANGED <<op, args>>

SpecSeg == InitSeg /\ [][CallConfigSeg]_vars

---------------------------------------------------------------------------
(* Calls of _config_bar_length                                             *)

MaxAxUnits == 61
MaxAxInches == 2
MaxGivenMax == 7
MaxGivenLength == 3
MaxGivenDiv == 2

Opt(S) == {None} \cup S

\* axis ranges: the small ones, and two of a larger magnitude
AxUnitsValues == {R(n) : n \in 0..MaxAxUnits} \cup {R(1234), R(98765)}

AxInchesValues == {R(4 * n) : n \in 1..MaxAxInches}

\* lengths: fractions of the axis (< 1) and inches (>= 1)
GivenLengths == {Frac(n, 4) : n \in 0..MaxGivenLength} \cup {R(2), R(10)}

LenArgs ==
    [bar_max : Opt({R(n) : n \in 0..MaxGivenMax} \cup {Frac(9, 2)}),
     bar_length : Opt(GivenLengths),
     bar_major_mult : Opt({R(2)}),
     bar_major_div : Opt({R(n) : n \in 1..MaxGivenDiv}),
     ax_inches : AxInchesValues,
     ax_units : AxUnitsValues,
     bar_projection : {"EPSG:3857", "px"}]

InitLen ==
    /\ pc = "call"
    /\ op = "_config_bar_length"
    /\ args \in LenArgs
    /\ ret = NoRet
    /\ warns = <<>>

CallConfigBarLength ==
    /\ pc = "call"
    /\ op = "_config_bar_length"
    /\ LET r == ConfigBarLength(args.bar_max, args.bar_length, args.bar_major_mult,
                                args.bar_major_div, args.ax_inches, args.ax_units,
                                args.bar_projection)
       IN  /\ ret' = [err |-> r.err, none |-> r.none, bar_max |-> r.bar_max,
                      bar_length |-> r.bar_length, major_div |-> r.major_div,
                      minor_div |-> r.minor_div]
           /\ warns' = r.warns
    /\ pc' = "done"
    /\ UNCHANGED <<op, args>>

SpecLen == InitLen /\ [][CallConfigBarLength]_vars

---------------------------------------------------------------------------
(* Calls of _config_bar_dim                                                *)

RangeSlack == 1

\* spans of the axis limits: around the two thresholds, and two small ones
RangeValues ==
    {R(t + d) : t \in {MetresPerKm * UpgradeFactor, FeetPerMile * UpgradeFactor},
                d \in (0 - RangeSlack)..RangeSlack}
    \cup {R(10), R(1234)}

AxStates ==
    [width_px : {R(800)}, height_px : {R(400)}, dpi : {R(100)},
     xrange : RangeValues, yrange : RangeValues,
     xmetres : {R(5000), R(5001)}, ymetres : {R(4999), R(111000)}]

DimArgs ==
    [ax : AxStates,
     bar_vertical : BOOLEAN,
     bar_projection : {"EPSG:3857", "EPSG:2263", "EPSG:4326", "EPSG:3167", "px", "pt", "axis"},
     bar_unit : {NoUnit, "m", "km", "mi", "feet"}]

InitDim ==
    /\ pc = "call"
    /\ op = "_config_bar_dim"
    /\ args \in DimArgs
    /\ ret = NoRet
    /\ warns = <<>>

CallConfigBarDim ==
    /\ pc = "call"
    /\ op = "_config_bar_dim"
    /\ LET r == ConfigBarDim(args.ax, args.bar_vertical, args.bar_projection, args.bar_unit)
       IN  /\ ret' = [err |-> r.err, none |-> r.none, ax_inches |-> r.ax_inches,
                      ax_units |-> r.ax_units, units_label |-> r.units_label]
           /\ warns' = r.warns
    /\ pc' = "done"
    /\ UNCHANGED <<op, args>>

SpecDim == InitDim /\ [][CallConfigBarDim]_vars

---------------------------------------------------------------------------
(* Properties of _config_seg, under SpecSeg                                *)

SegDone == pc = "done" /\ op = "_config_seg" /\ ret.err = "none"

LastSeg == ret.segments[Len(ret.segments)]

\* C1: the widths of the non-spacer segments that _config_seg returns for the
\* boxes of the bar (every segment but the closing one, which only carries the
\* label of the bar's end) sum to the full bar width,
\* major_div x per-major width x 72 points.
C1_WidthConservation ==
    SegDone =>
        RSum(BoxWidths(ret.segments)) = RMul(R(args.major_div * 72), args.major_width)

\* C2: in every segment sequence returned by _config_seg the first and the
\* last segment have type 'major'.
C2_BoundaryMajor ==
    SegDone =>
        /\ Len(ret.segments) >= 1
        /\ ret.segments[1].type = "major"
        /\ LastSeg.type = "major"

\* a sequence whose last built segment was the spacer of minor_type 'first'
C2_Witness ==
    /\ SegDone
    /\ args.minor_type = "first" /\ args.major_div = 1 /\ args.minor_div = 2
    /\ LastSeg.value = PyInt(-1)
    /\ LastSeg.type = "major"

\* C4: without custom labels, label_style 'first_last' labels exactly the
\* first and the last segment of a sequence of at least two, and 'last_only'
\* labels exactly the last segment.
C4_LabelCount ==
    (SegDone /\ args.labels.none) =>
        /\ (args.label_style = "first_last" /\ Len(ret.segments) >= 2) =>
              /\ NumLabels(ret.segments) = 2
              /\ ret.segments[1].label /= PyNone
              /\ LastSeg.label /= PyNone
        /\ args.label_style = "last_only" =>
              /\ NumLabels(ret.segments) = 1
              /\ LastSeg.label /= PyNone

C4_Witness ==
    /\ SegDone /\ args.labels.none
    /\ args.label_style = "first_last"
    /\ args.minor_type = "all" /\ args.major_div = 3 /\ args.minor_div = 2
    /\ Len(ret.segments) = 7
    /\ NumLabels(ret.segments) = 2

\* C5: with major_div = 1, minor_div in {0, 1} and label_style 'last_only',
\* _config_seg returns exactly one segment, its value is bar_max, and (when no
\* custom labels are given) its label is bar_max as the format renders it.
C5_SingleSegment ==
    (SegDone /\ args.major_div = 1 /\ args.minor_div \in {0, 1}
             /\ args.label_style = "last_only") =>
        /\ Len(ret.segments) = 1
        /\ ret.segments[1].value.v = args.bar_max
        /\ args.labels.none =>
              /\ ret.segments[1].label.t /= "None"
              /\ ret.segments[1].label.v =
                    IF args.format_str \in {"None", ""} THEN args.bar_max
                    ELSE RoundTo(args.bar_max, Decimals(args.format_str))

C5_Witness ==
    /\ SegDone /\ args.labels.none
    /\ args.major_div = 1 /\ args.minor_div = 0 /\ args.label_style = "last_only"
    /\ args.bar_max = Frac(3, 2) /\ args.format_str = "None"
    /\ Len(ret.segments) = 1
    /\ ret.segments[1].label = PyFloat(Frac(3, 2))

---------------------------------------------------------------------------
(* Properties of _config_bar_length, under SpecLen                         *)

LenDone == pc = "done" /\ op = "_config_bar_length"

LenReturned == LenDone /\ ret.err = "none" /\ ~ret.none

MaxMagnitude == 5

\* the fraction of the axis a requested length covers
C3_Fraction(len) == IF RLt(len, R(1)) THEN len ELSE RDiv(len, args.ax_inches)

\* the implied max: the axis range times the fraction the length covers; a
\* length beyond the axis may have been replaced by the default quarter
C3_Implied ==
    IF IsNone(args.bar_length) THEN {RMul(args.ax_units, Frac(1, 4))}
    ELSE {RMul(args.ax_units, C3_Fraction(args.bar_length))}
         \cup (IF RLt(args.ax_inches, args.bar_length)
               THEN {RMul(args.ax_units, Frac(1, 4))} ELSE {})

\* x normalised by 10^k lies in (1.5, 15], or k = 0 and it is at most 15
C3_Normalises(x, k) ==
    /\ RLe(RDiv(x, R(Pow10(k))), R(15))
    /\ (k = 0 \/ RLt(Frac(3, 2), RDiv(x, R(Pow10(k)))))

C3_Nearest(m, n) ==
    \A j \in 1..Len(PreferredMaxes) :
        RLe(RAbs(RSub(m, n)), RAbs(RSub(PreferredMaxes[j], n)))

\* C3: when no max is supplied and a length is given, or nothing is given,
\* the returned bar_max is m x 10^k for the table entry m nearest to the
\* implied max normalised by 10^k, k >= 0, and the returned divisions are the
\* pair the table maps m to.
C3_NiceNumber ==
    (/\ LenReturned
     /\ IsNone(args.bar_max)
     /\ (~IsNone(args.bar_length)
           \/ (IsNone(args.bar_major_mult) /\ IsNone(args.bar_major_div)))) =>
        \E x \in C3_Implied, k \in 0..MaxMagnitude, i \in 1..Len(PreferredMaxes) :
            /\ C3_Normalises(x, k)
            /\ C3_Nearest(PreferredMaxes[i], RDiv(x, R(Pow10(k))))
            /\ ret.bar_max = RMul(PreferredMaxes[i], R(Pow10(k)))
            /\ <<ret.major_div, ret.minor_div>> = PreferredDivs(PreferredMaxes[i])

\* half of an axis spanning 50 units: 25 = 2.5 x 10
C3_Witness ==
    /\ LenReturned
    /\ IsNone(args.bar_max) /\ args.bar_length = Frac(1, 2) /\ args.ax_units = R(50)
    /\ ret.bar_max = R(25)
    /\ ret.major_div = 5 /\ ret.minor_div = 1

C6_Count(w, seq) == Cardinality({i \in 1..Len(seq) : seq[i] = w})

\* C6: when both max and length are supplied the returned bar_max is max, the
\* returned bar_length is axis inches x (max / axis range) whatever the
\* length, and the max/length conflict warning is emitted exactly once.
C6_MaxOverLength ==
    (LenDone /\ ret.err = "none" /\ ~IsNone(args.bar_max) /\ ~IsNone(args.bar_length)) =>
        /\ ~ret.none
        /\ ret.bar_max = args.bar_max
        /\ ret.bar_length = RMul(args.ax_inches, RDiv(args.bar_max, args.ax_units))
        /\ C6_Count("max_and_length", warns) = 1

C6_Witness ==
    /\ LenReturned
    /\ args.bar_max = R(6) /\ args.bar_length = R(2)
    /\ args.ax_inches = R(4) /\ args.ax_units = R(12)
    /\ ret.bar_max = R(6) /\ ret.bar_length = R(2)
    /\ warns = <<"max_and_length">>

\* C10: for every combination of supplied and absent max, length, major_mult
\* and major_div (on an axis of non-zero range) _config_bar_length raises
\* nothing and returns a complete (bar_max, bar_length, major_div, minor_div),
\* taking max first, then length, then major_mult with major_div, then the
\* default quarter of the axis.
C10_NeverFatal ==
    (LenDone /\ ~RIsZero(args.ax_units)) =>
        /\ ret.err = "none"
        /\ ~ret.none
        /\ ~IsNone(ret.bar_max) /\ ~IsNone(ret.bar_length)
        /\ ret.major_div >= 1 /\ ret.minor_div >= 0
        /\ ~IsNone(args.bar_max) => ret.bar_max = args.bar_max

---------------------------------------------------------------------------
(* Properties of _config_bar_dim, under SpecDim                            *)

DimReturned == pc = "done" /\ op = "_config_bar_dim" /\ ret.err = "none" /\ ~ret.none

\* the unit the projection measures in, and the span of the axis in it
C9_Native ==
    CASE args.bar_projection = "EPSG:3857" -> "m"
      [] args.bar_projection = "EPSG:4326" -> "m"
      [] args.bar_projection = "EPSG:2263" -> "ft"
      [] OTHER -> "other"

C9_Range ==
    IF args.bar_projection = "EPSG:4326"
    THEN (IF args.bar_vertical THEN args.ax.ymetres ELSE args.ax.xmetres)
    ELSE (IF args.bar_vertical THEN args.ax.yrange ELSE args.ax.xrange)

\* C9: with no output unit requested, a range in metres becomes kilometres
\* (range / 1000, label 'km') exactly when it is strictly greater than 5000,
\* a range in feet becomes miles (range / 5280, label 'mi') exactly when it is
\* strictly greater than 26400, and otherwise unit and value are kept.
C9_UpgradeThresholds ==
    (DimReturned /\ args.bar_unit = NoUnit) =>
        /\ C9_Native = "m" =>
              IF RLt(R(5000), C9_Range)
              THEN ret.units_label = "km" /\ ret.ax_units = RDiv(C9_Range, R(1000))
              ELSE ret.units_label = "m" /\ ret.ax_units = C9_Range
        /\ C9_Native = "ft" =>
              IF RLt(R(26400), C9_Range)
              THEN ret.units_label = "mi" /\ ret.ax_units = RDiv(C9_Range, R(5280))
              ELSE ret.units_label = "ft" /\ ret.ax_units = C9_Range

\* a range exactly at the threshold of the metre
C9_Witness ==
    /\ DimReturned /\ args.bar_unit = NoUnit
    /\ args.bar_projection = "EPSG:3857" /\ ~args.bar_vertical
    /\ args.ax.xrange = R(5000)
    /\ ret.units_label = "m" /\ ret.ax_units = R(5000)

---------------------------------------------------------------------------
(* Calls of _align_dual                                                    *)

MaxLead == 2
MaxBody == 2
MaxTrail == 1

\* what the canvas holds where nothing is drawn: Agg clears to transparent
\* white, the corners PIL adds when rotating are transparent black
Backgrounds == {<<255, 255, 255, 0>>, <<0, 0, 0, 0>>}

Ink == <<0, 0, 0, 255>>

\* a bar image along the alignment axis: margin, bar, margin
Profiles(bg) ==
    {Repeat(bg, l) \o Repeat(Ink, b) \o Repeat(bg, t) :
        l \in 0..MaxLead, b \in 1..MaxBody, t \in 0..MaxTrail}

AlignArgs ==
    UNION {[children : Profiles(bg) \X Profiles(bg), bar_vertical : BOOLEAN,
            reverse : BOOLEAN, bg : {bg}] : bg \in Backgrounds}

InitAlign ==
    /\ pc = "call"
    /\ op = "_align_dual"
    /\ args \in AlignArgs
    /\ ret = NoRet
    /\ warns = <<>>

\* the artist is padded in place: the children of the caller's packer change
CallAlignDual ==
    /\ pc = "call"
    /\ op = "_align_dual"
    /\ LET r == AlignDual(args.children, args.bar_vertical, args.reverse, args.bg)
       IN  /\ ret' = [err |-> "none", xtop |-> r.xtop, xbot |-> r.xbot]
           /\ args' = [args EXCEPT !.children = r.children]
    /\ pc' = "done"
    /\ UNCHANGED <<op, warns>>

SpecAlign == InitAlign /\ [][CallAlignDual]_vars

---------------------------------------------------------------------------
(* Properties of _align_dual, under SpecAlign                              *)

\* where a line starts, counted from the edge the bars are aligned on
C8_Start(line, reverse) == FirstOpaque(IF reverse THEN FlipPixels(line) ELSE line)

C8_Offset(children, bar_vertical, reverse, bg) ==
    LET img == RenderPack(children, bar_vertical, reverse, bg)
    IN  C8_Start(img[2], reverse) - C8_Start(img[1], reverse)

C8_Measured(children, bar_vertical, reverse, bg) ==
    LET img == RenderPack(children, bar_vertical, reverse, bg)
    IN  <<Sample(img[1], bar_vertical, reverse), Sample(img[2], bar_vertical, reverse)>>

\* C8: once _align_dual has returned, the two sampled lines of the packed
\* bars, measured again the same way, start at the same pixel (offset 0), for
\* horizontal and vertical bars and both values of reverse.
C8_AlignConverges ==
    (pc = "done" /\ op = "_align_dual") =>
        LET m == C8_Measured(args.children, args.bar_vertical, args.reverse, args.bg)
        IN  /\ m[1] /= -1
            /\ m[1] = m[2]
            /\ C8_Offset(args.children, args.bar_vertical, args.reverse, args.bg) = 0

\* the same, for horizontal bars only
C8_HorizontalConverges ==
    (pc = "done" /\ op = "_align_dual" /\ ~args.bar_vertical) =>
        LET m == C8_Measured(args.children, args.bar_vertical, args.reverse, args.bg)
        IN  /\ m[1] /= -1
            /\ m[1] = m[2]
            /\ C8_Offset(args.children, args.bar_vertical, args.reverse, args.bg) = 0

---------------------------------------------------------------------------
(* Two computations in a row (scale_bar, lines 295-332)                    *)

MaxCustomLabels == 2

\* defaults/scale_bar.py, the medium tier
DefaultLabels ==
    [labels |-> NoLabels, format |-> ".2f", format_int |-> TRUE, style |-> "major"]

DefaultUnits == [label |-> "<None>"]

DefaultText == [fontsize |-> PyInt(12), textcolor |-> "black"]

Defaults == [labels |-> DefaultLabels, units |-> DefaultUnits, text |-> DefaultText]

CustomLists == {LabelList([i \in 1..n |-> PyText(i)]) : n \in 1..MaxCustomLabels}

LabelsGiven ==
    {NoDict, Dict([style |-> "last_only", labels |-> NoLabels])}
    \cup {Dict([style |-> "major", labels |-> l]) : l \in CustomLists}
    \cup {Dict([style |-> "minor_first", labels |-> l, fontsize |-> PyText(1)]) :
             l \in CustomLists}

UnitsGiven == {NoDict, Dict([label |-> "km", fontsize |-> PyText(1)])}

TextGiven == {NoDict, Dict([fontsize |-> PyText(1)])}

\* _bar as _config_bar is given it; in scale_bar it is the merge of line 290,
\* which has no key 'major_mult'
BarsWithMult ==
    [rotation : {R(0), R(90)}, projection : {"EPSG:3857", "px", "EPSG:3167"},
     unit : {NoUnit}, max : Opt({R(6)}), length : Opt({Frac(1, 4)}),
     major_mult : Opt({R(2)}), major_div : Opt({R(2)}), minor_div : Opt({R(3)}),
     minor_type : {"first"}]

BarsGiven == BarsWithMult \cup {DelKeys(b, {"major_mult"}) : b \in BarsWithMult}

AxesGiven ==
    [width_px : {R(800)}, height_px : {R(400)}, dpi : {R(100)},
     xrange : {R(5001)}, yrange : {R(10)},
     xmetres : {R(5000)}, ymetres : {R(4999)}]

ComputeArgs ==
    [ax : AxesGiven, bar : BarsGiven, labels : LabelsGiven, units : UnitsGiven,
     text : TextGiven, defaults : {Defaults}]

InitCompute ==
    /\ pc = "call"
    /\ op = "compute"
    /\ args \in ComputeArgs
    /\ ret = <<>>
    /\ warns = <<>>

\* one pass over lines 295-332; ret collects what each pass computed
CallCompute ==
    /\ op = "compute"
    /\ pc \in {"call", "once"}
    /\ LET r == Compute(args)
       IN  /\ ret' = Append(ret, r.out)
           /\ args' = r.heap
           /\ warns' = warns \o r.out.warns
    /\ pc' = IF pc = "call" THEN "once" ELSE "done"
    /\ UNCHANGED op

SpecCompute == InitCompute /\ [][CallCompute]_vars

---------------------------------------------------------------------------
(* Properties of the computation, under SpecCompute                        *)

\* C7: a computation changes neither the dictionaries and lists it was given
\* nor the module defaults, and the second of two computations in a row
\* yields what the first one yielded: the same bar configuration and the
\* same segments (or the same exception).
C7_Idempotent ==
    [][(op = "compute") =>
          /\ args' = args
          /\ (pc = "once" => ret'[2] = ret[1])]_vars

\* two completed computations that had fewer custom labels than segments to
\* label and a font size given by name
C7_Witness ==
    /\ op = "compute" /\ pc = "done"
    /\ ret[1].err = "none" /\ ret[2].err = "none"
    /\ Len(ret[1].segments) >= 3
    /\ args.labels.given /\ "fontsize" \in DOMAIN args.labels.d
    /\ Len(args.labels.d.labels.items) = 1
    /\ ret[1].warns = <<"fewer_labels">>

---------------------------------------------------------------------------
(* _make_ticks, line 1169: the segments that are drawn as ticks            *)

TickSegments(segments) == SelectSeq(segments, LAMBDA sg : sg.type /= "spacer")

---------------------------------------------------------------------------
(* More properties of _config_seg, under SpecSeg                           *)

\* the segments that are not spacers, in sequence order
C13_Valued == SelectSeq(ret.segments, LAMBDA sg : sg.type /= "spacer")

\* C13: in every segment sequence _config_seg returns the values of the
\* segments that are not spacers never decrease along the sequence, only a
\* segment of type 'spacer' has the value -1, and a segment built as a spacer
\* has no label and is not among the segments drawn as ticks.
C13_SpacerSentinel ==
    SegDone =>
        /\ \A i \in 1..(Len(C13_Valued) - 1) :
              RLe(C13_Valued[i].value.v, C13_Valued[i + 1].value.v)
        /\ \A i \in 1..Len(ret.segments) :
              /\ ret.segments[i].value = PyInt(-1) => ret.segments[i].type = "spacer"
              /\ ret.segments[i].type = "spacer" => ret.segments[i].label = PyNone
        /\ \A j \in 1..Len(TickSegments(ret.segments)) :
              TickSegments(ret.segments)[j].value /= PyInt(-1)

\* the segments as _config_seg labels them when no custom list is given
C14_Auto ==
    ConfigSeg(args.bar_max, args.major_width, args.major_div, args.minor_div,
              args.minor_type, args.label_style, NoLabels, args.format_str,
              args.format_int).segments

\* the custom entry that falls to segment k: the i-th entry for the i-th
\* segment that has an automatic label, None past the end of the list
C14_Entry(auto, k) ==
    LET i == Cardinality({j \in 1..k : auto[j].label /= PyNone})
    IN  IF i <= Len(args.labels.items) THEN args.labels.items[i] ELSE PyNone

\* C14: with a custom label list, the i-th segment that would get a label
\* keeps its automatic label (its formatted value) when the i-th entry is True
\* or a number, gets no label when the entry is False or None, and gets the
\* entry itself when the entry is anything else.
C14_CustomMapping ==
    (SegDone /\ ~args.labels.none) =>
        LET auto == C14_Auto
        IN  \A k \in 1..Len(ret.segments) :
                auto[k].label /= PyNone =>
                    LET e == C14_Entry(auto, k)
                    IN  IF e = PyBool(TRUE) \/ e.t \in {"int", "float"}
                        THEN ret.segments[k].label = auto[k].label
                        ELSE IF e = PyBool(FALSE) \/ e = PyNone
                        THEN ret.segments[k].label = PyNone
                        ELSE ret.segments[k].label = e

---------------------------------------------------------------------------
(* Calls of _format_numeric                                                *)

MaxFormatQuarters == 9
MaxFormatInt == 3

\* ints (the -1 of a spacer among them) and floats in steps of a quarter
FormatValues ==
    {PyInt(n) : n \in (0 - 1)..MaxFormatInt}
    \cup {PyFloat(Frac(n, 4)) : n \in 0..MaxFormatQuarters}

FormatArgs ==
    [val : FormatValues, fmt : {"None", "", ".0f", ".1f", ".2f"},
     integer_override : BOOLEAN]

InitFormat ==
    /\ pc = "call"
    /\ op = "_format_numeric"
    /\ args \in FormatArgs
    /\ ret = NoRet
    /\ warns = <<>>

CallFormatNumeric ==
    /\ pc = "call"
    /\ op = "_format_numeric"
    /\ ret' = [err |-> "none",
               val |-> FormatNumeric(args.val, args.fmt, args.integer_override)]
    /\ pc' = "done"
    /\ UNCHANGED <<op, args, warns>>

SpecFormat == InitFormat /\ [][CallFormatNumeric]_vars

\* C15: _format_numeric returns the value as it is when the format is None or
\* empty; otherwise it returns the value rendered with the format, except
\* that a whole-number value is rendered as a plain integer when format_int
\* is True.  With format_int False a whole-number float is rendered with the
\* format.
C15_FormatNumeric ==
    (pc = "done" /\ op = "_format_numeric") =>
        IF args.fmt \in {"None", ""}
        THEN ret.val = args.val
        ELSE IF args.integer_override /\ RIsWhole(args.val.v)
        THEN ret.val = PyNumStr(args.val.v, 0)
        ELSE ret.val = PyNumStr(RoundTo(args.val.v, Decimals(args.fmt)), Decimals(args.fmt))

---------------------------------------------------------------------------
(* validation/functions.py, _validate_range, and the keys of the           *)
(* validation tables that are checked with it                              *)

Keyword(min, max, none_ok) == [min |-> min, max |-> max, none_ok |-> none_ok]

\* the "kwargs" of every entry whose "func" is _validate_range, the key
\* prefixed with the table it is in
RangeKeywords ==
    [k \in {"bar.rotation", "bar.max", "bar.length", "bar.height", "bar.major_div",
            "bar.minor_div", "bar.minor_frac", "bar.edgewidth", "bar.tickwidth",
            "labels.stroke_width", "labels.rotation", "labels.sep", "labels.pad",
            "units.stroke_width", "units.rotation", "units.sep", "units.pad",
            "text.stroke_width", "text.rotation",
            "aob.alpha", "aob.pad", "aob.borderpad"} |->
        CASE k \in {"bar.rotation", "labels.rotation", "units.rotation", "text.rotation"}
                -> Keyword(R(-360), R(360), TRUE)
          [] k \in {"bar.minor_frac", "aob.alpha"}
                -> Keyword(R(0), R(1), TRUE)
          [] k = "bar.major_div"
                -> Keyword(R(1), None, TRUE)
          [] k \in {"bar.max", "bar.length", "bar.height", "bar.minor_div",
                    "bar.edgewidth", "bar.tickwidth"}
                -> Keyword(R(0), None, TRUE)
          [] OTHER
                -> Keyword(R(0), None, FALSE)]

\* the outcome of a validator: the value it returns, or the error it raises
Valid(val) == [err |-> "none", val |-> val]

Invalid(e, val) == [err |-> e, val |-> val]

ValidateRange(val, min, max, none_ok) ==
    IF none_ok = FALSE /\ val = PyNone THEN Invalid("ValueError", val)
    ELSE IF none_ok = TRUE /\ val = PyNone THEN Valid(val)
    ELSE IF val.t /= "int" /\ val.t /= "float" THEN Invalid("ValueError", val)
    ELSE IF ~IsNone(max)
         THEN IF ~RLe(min, val.v) /\ ~RLe(val.v, max)
              THEN Invalid("ValueError", val) ELSE Valid(val)
         ELSE IF ~RLe(min, val.v)
              THEN Invalid("ValueError", val) ELSE Valid(val)

ValidateSlack == 1

\* values around every bound of the tables, halves, None, a bool and a str
ValidateValues ==
    {PyInt(t + d) : t \in {-360, 0, 1, 360}, d \in (0 - ValidateSlack)..ValidateSlack}
    \cup {PyFloat(Frac(n, 2)) : n \in {-1, 1, 3}}
    \cup {PyNone, PyBool(TRUE), PyText(1)}

RangeArgs == [key : DOMAIN RangeKeywords, val : ValidateValues]

InitRange ==
    /\ pc = "call"
    /\ op = "_validate_range"
    /\ args \in RangeArgs
    /\ ret = NoRet
    /\ warns = <<>>

CallValidateRange ==
    /\ pc = "call"
    /\ op = "_validate_range"
    /\ ret' = ValidateRange(args.val, RangeKeywords[args.key].min,
                            RangeKeywords[args.key].max, RangeKeywords[args.key].none_ok)
    /\ pc' = "done"
    /\ UNCHANGED <<op, args, warns>>

SpecRange == InitRange /\ [][CallValidateRange]_vars

\* C16: for every key validated against an interval, a number below the
\* minimum or above the maximum makes the validation raise an error.
C16_OutOfRangeFatal ==
    (/\ pc = "done" /\ op = "_validate_range"
     /\ args.val.t \in {"int", "float"}
     /\ \/ RLt(args.val.v, RangeKeywords[args.key].min)
        \/ /\ ~IsNone(RangeKeywords[args.key].max)
           /\ RLt(RangeKeywords[args.key].max, args.val.v)) =>
        ret.err = "ValueError"

---------------------------------------------------------------------------
(* scale_bar, lines 362-376: the boxes of a bar of style "boxes"           *)

\* zip(box_widths, bar_facecolors, bar_edgecolors): as long as the shortest
ZipBoxes(box_widths, bar_facecolors, bar_edgecolors) ==
    [i \in 1..MinOf(Len(box_widths), MinOf(Len(bar_facecolors), Len(bar_edgecolors))) |->
        [width |-> box_widths[i], facecolor |-> bar_facecolors[i],
         edgecolor |-> bar_edgecolors[i]]]

\* one _make_boxes per element of the zip
MakeBoxes(segments, facecolors, edgecolors, major_div, minor_div) ==
    ZipBoxes(BoxWidths(segments),
             ExpandListCycle(facecolors, major_div * minor_div),
             ExpandListCycle(edgecolors, (major_div * minor_div) + 1))

MaxColors == 3

ColorLists == {[i \in 1..n |-> i] : n \in 1..MaxColors}

BoxArgs ==
    [bar_max : {R(1)}, major_width : {R(1)},
     major_div : 1..MaxMajorDiv, minor_div : 0..MaxMinorDiv,
     minor_type : MinorTypes, label_style : {"major", "last_only"},
     facecolors : ColorLists, edgecolors : ColorLists]

InitBoxes ==
    /\ pc = "call"
    /\ op = "boxes"
    /\ args \in BoxArgs
    /\ ret = NoRet
    /\ warns = <<>>

\* lines 330-332 and 362-376: the segments, then the boxes made for them
CallMakeBoxes ==
    /\ pc = "call"
    /\ op = "boxes"
    /\ LET r == ConfigSeg(args.bar_max, args.major_width, args.major_div,
                          args.minor_div, args.minor_type, args.label_style,
                          NoLabels, "None", FALSE)
       IN  ret' = [err |-> r.err, segments |-> r.segments,
                   boxes |-> MakeBoxes(r.segments, args.facecolors, args.edgecolors,
                                       args.major_div, args.minor_div)]
    /\ pc' = "done"
    /\ UNCHANGED <<op, args, warns>>

SpecBoxes == InitBoxes /\ [][CallMakeBoxes]_vars

\* C20: for every major_div >= 1, minor_div >= 0 and minor_type, a bar of
\* style 'boxes' has exactly one box for every non-spacer segment before the
\* closing one (one box for the single segment of the last_only collapse), in
\* sequence order with the segment's width, and box i (counted from 0) has
\* face colour facecolors[i mod len(facecolors)] and edge colour
\* edgecolors[i mod len(edgecolors)].
C20_OneBoxPerDivision ==
    (pc = "done" /\ op = "boxes" /\ ret.err = "none") =>
        /\ Len(ret.boxes) = Len(BoxWidths(ret.segments))
        /\ \A i \in 1..Len(ret.boxes) :
              /\ ret.boxes[i].width = BoxWidths(ret.segments)[i]
              /\ ret.boxes[i].facecolor = args.facecolors[((i - 1) % Len(args.facecolors)) + 1]
              /\ ret.boxes[i].edgecolor = args.edgecolors[((i - 1) % Len(args.edgecolors)) + 1]

---------------------------------------------------------------------------
(* More properties of the computation, under SpecCompute                   *)

\* the projection parses, and the unit of its axis is not in units_standard
C19_UnitUnknown ==
    /\ args.bar.projection \notin PassThrough
    /\ CrsUnitName(args.bar.projection) /= "degree"
    /\ UnitsStandard(CrsUnitName(args.bar.projection)) = NoUnit

\* C19: when the CRS parses but the unit of its axis is not a known unit, the
\* computation warns about the unit and ends without an error and without a
\* bar configuration or segments to render.
C19_UnitNonFatal ==
    (op = "compute" /\ pc \in {"once", "done"} /\ C19_UnitUnknown) =>
        /\ \E i \in 1..Len(warns) : warns[i] = "invalid_projection_units"
        /\ ret[1].err = "none"
        /\ ret[1].segments = <<>>

---------------------------------------------------------------------------
(* The size tiers (defaults/scale_bar.py) and the validation tables        *)
(* (validation/scale_bar.py).  A dictionary is a function from the keys it *)
(* has to their values: a number is a rational, with None for Python's     *)
(* None; a string is itself, with "<None>" for Python's None; a font size  *)
(* is a Python value.                                                      *)

Tiers == {"xs", "sm", "md", "lg", "xl"}

\* the value a key has in each of the five tiers
TierValue(tier, xs, sm, md, lg, xl) ==
    CASE tier = "xs" -> xs
      [] tier = "sm" -> sm
      [] tier = "md" -> md
      [] tier = "lg" -> lg
      [] tier = "xl" -> xl

NoStr == "<None>"

\* _BAR_XS ... _BAR_XL
BarDefaults(tier) ==
    [projection |-> NoStr, unit |-> NoUnit, rotation |-> R(0), max |-> None,
     length |-> None,
     height |-> TierValue(tier, Frac(5, 100), Frac(75, 1000), Frac(1, 10), Frac(2, 10), Frac(4, 10)),
     reverse |-> FALSE, major_div |-> None, minor_div |-> None,
     minor_frac |-> Frac(66, 100),
     minor_type |-> TierValue(tier, "none", "none", "first", "first", "first"),
     facecolors |-> <<"black", "white">>, edgecolors |-> "black",
     edgewidth |-> TierValue(tier, Frac(1, 2), Frac(3, 4), R(1), R(2), R(4)),
     tick_loc |-> "above", basecolors |-> <<"black">>, tickcolors |-> <<"black">>,
     tickwidth |-> TierValue(tier, Frac(1, 2), Frac(3, 4), Frac(3, 2), R(3), R(5))]

\* _LABELS_XS ... _LABELS_XL
LabelsDefaults(tier) ==
    [labels |-> NoLabels, format |-> ".2f", format_int |-> TRUE,
     style |-> TierValue(tier, "first_last", "first_last", "major", "major", "major"),
     loc |-> "above", pad |-> R(0),
     sep |-> TierValue(tier, Frac(3, 2), R(3), R(5), R(8), R(12))]

\* _UNITS_XS ... _UNITS_XL
UnitsDefaults(tier) ==
    [label |-> NoStr, loc |-> "bar", pad |-> R(0),
     sep |-> TierValue(tier, Frac(3, 2), R(3), R(5), R(8), R(12))]

\* _TEXT_XS ... _TEXT_XL
TextDefaults(tier) ==
    [fontsize |-> TierValue(tier, PyInt(4), PyInt(6), PyInt(12), PyInt(24), PyInt(48)),
     textcolor |-> "black", fontfamily |-> "sans-serif", fontstyle |-> "normal",
     fontweight |-> "regular",
     stroke_width |-> TierValue(tier, Frac(1, 2), Frac(1, 2), R(1), R(2), R(4)),
     stroke_color |-> "white", rotation |-> None, rotation_mode |-> "anchor"]

\* _AOB_XS ... _AOB_XL
AobDefaults(tier) ==
    [facecolor |-> NoStr, edgecolor |-> NoStr, alpha |-> None,
     pad |-> TierValue(tier, Frac(1, 10), Frac(33, 100), Frac(1, 2), R(1), R(2)),
     borderpad |-> TierValue(tier, Frac(1, 10), Frac(33, 100), Frac(1, 2), R(1), R(2)),
     prop |-> "medium", frameon |-> FALSE, bbox_to_anchor |-> NoStr,
     bbox_transform |-> NoStr]

\* _DEFAULTS_SB
DefaultsSB ==
    [tier \in Tiers |->
        [bar |-> BarDefaults(tier), labels |-> LabelsDefaults(tier),
         units |-> UnitsDefaults(tier), text |-> TextDefaults(tier),
         aob |-> AobDefaults(tier)]]

\* the keys of _VALIDATE_PRIMARY
ValidatePrimaryKeys == {"style", "location"}

Styles == {"ticks", "boxes"}

Locations ==
    {"upper right", "upper left", "lower left", "lower right", "center left",
     "center right", "lower center", "upper center", "center"}

\* the keys of _VALIDATE_BAR, _VALIDATE_LABELS, _VALIDATE_UNITS,
\* _VALIDATE_TEXT and _VALIDATE_AOB
ValidateBarKeys ==
    {"projection", "unit", "rotation", "max", "length", "height", "reverse",
     "major_div", "minor_div", "minor_frac", "minor_type", "facecolors",
     "edgecolors", "edgewidth", "tick_loc", "basecolors", "tickcolors", "tickwidth"}

ValidateLabelsKeys ==
    {"labels", "format", "format_int", "style", "loc", "fontsize", "textcolors",
     "fontfamily", "fontstyle", "fontweight", "stroke_width", "stroke_color",
     "rotation", "rotation_mode", "sep", "pad"}

ValidateUnitsKeys ==
    {"label", "loc", "fontsize", "textcolor", "fontfamily", "fontstyle",
     "fontweight", "stroke_width", "stroke_color", "rotation", "rotation_mode",
     "sep", "pad"}

ValidateTextKeys ==
    {"fontsize", "textcolor", "fontfamily", "fontstyle", "fontweight",
     "stroke_width", "stroke_color", "rotation", "rotation_mode"}

ValidateAobKeys ==
    {"facecolor", "edgecolor", "alpha", "pad", "borderpad", "prop", "frameon",
     "bbox_to_anchor", "bbox_transform"}

\* the keys lines 75-79, 138-140 and 290-294 delete for each style
StyleDrops(style) ==
    IF style = "boxes"
    THEN {"minor_frac", "tick_loc", "basecolors", "tickcolors", "tickwidth"}
    ELSE {"facecolors", "edgecolors", "edgewidth"}


---------------------------------------------------------------------------
(* validation/functions.py: the validators of the tables and               *)
(* _validate_dict.  matplotlib's own validators (colours, font sizes, font *)
(* weights), _validate_type, _validate_iterable and _skip_validation       *)
(* accept every value the dictionaries of this model hold.                 *)

\* the "kwargs" of every entry whose "func" is _validate_list, the key
\* prefixed with the table it is in
ListKeywords ==
    [k \in {"primary.style", "primary.location", "bar.unit", "bar.minor_type",
            "bar.tick_loc", "labels.style", "labels.loc", "labels.fontfamily",
            "labels.fontstyle", "labels.rotation_mode", "units.loc",
            "units.fontfamily", "units.fontstyle", "units.rotation_mode",
            "text.fontfamily", "text.fontstyle", "text.rotation_mode"} |->
        CASE k = "primary.style" -> [list |-> Styles, none_ok |-> FALSE]
          [] k = "primary.location" -> [list |-> Locations, none_ok |-> FALSE]
          [] k = "bar.unit"
                -> [list |-> {"ft", "ftUS", "foot", "feet", "US survey foot", "yd",
                              "yard", "yards", "mi", "mile", "miles", "nmi",
                              "nautical", "nautical mile", "nautical miles", "m",
                              "meter", "metre", "meters", "metres", "km",
                              "kilometer", "kilometers", "kilometre", "kilometres"},
                    none_ok |-> TRUE]
          [] k = "bar.minor_type"
                -> [list |-> {"all", "first", "none"}, none_ok |-> TRUE]
          [] k = "bar.tick_loc"
                -> [list |-> {"above", "below", "middle"}, none_ok |-> FALSE]
          [] k = "labels.style"
                -> [list |-> {"major", "first_last", "last_only", "minor_all",
                              "minor_first"},
                    none_ok |-> FALSE]
          [] k = "labels.loc" -> [list |-> {"above", "below"}, none_ok |-> TRUE]
          [] k = "units.loc"
                -> [list |-> {"bar", "text", "opposite"}, none_ok |-> TRUE]
          [] k \in {"labels.fontfamily", "units.fontfamily", "text.fontfamily"}
                -> [list |-> {"serif", "sans-serif", "cursive", "fantasy", "monospace"},
                    none_ok |-> FALSE]
          [] k \in {"labels.fontstyle", "units.fontstyle", "text.fontstyle"}
                -> [list |-> {"normal", "italic", "oblique"}, none_ok |-> FALSE]
          [] OTHER
                -> [list |-> {"anchor", "default"}, none_ok |-> TRUE]]

\* _validate_list; val is a string, "<None>" for None
ValidateList(val, list, none_ok) ==
    IF none_ok = FALSE /\ val = NoStr THEN Invalid("ValueError", val)
    ELSE IF none_ok = TRUE /\ val = NoStr THEN Valid(val)
    ELSE IF val \notin list THEN Invalid("ValueError", val)
    ELSE Valid(val)

\* _validate_projection: pyproj.CRS.from_user_input(val) in a try
ValidateProjection(val) ==
    IF val \in KnownCRS THEN Valid(val) ELSE Invalid("Exception", val)

\* a number of a dictionary as the Python value it is
AsPy(x) == IF IsNone(x) THEN PyNone ELSE PyFloat(x)

\* _validate_dict, lines 238-251: the validator of functions[key] on val
ValidateEntry(table, key, val) ==
    LET name == table \o "." \o key
    IN  IF name = "bar.projection" THEN ValidateProjection(val)
        ELSE IF name \in DOMAIN RangeKeywords
        THEN [ValidateRange(AsPy(val), RangeKeywords[name].min, RangeKeywords[name].max,
                            RangeKeywords[name].none_ok) EXCEPT !.val = val]
        ELSE IF name \in DOMAIN ListKeywords
        THEN ValidateList(val, ListKeywords[name].list, ListKeywords[name].none_ok)
        ELSE Valid(val)

\* _validate(_VALIDATE_PRIMARY, prop, val): validate_dict[prop] comes first
ValidatePrimary(prop, val) ==
    IF prop \notin ValidatePrimaryKeys THEN Invalid("KeyError", val)
    ELSE ValidateEntry("primary", prop, val)

\* what _validate_dict gives with return_clean=True: the dictionary, the
\* error of the first validator that raised, and whether the warning about
\* invalid keys was printed
Checked(e, values, invalid) == [err |-> e, val |-> values, invalid |-> invalid]

\* _validate_dict for None or a dictionary.  functions is the set of keys of
\* the validation table; to_validate is "input" or "all" (None).  The keys
\* are validated in the order of the tables, 'projection' first.
ValidateDictClean(table, input_dict, default_dict, functions, to_validate) ==
    IF ~input_dict.given THEN Checked("none", default_dict, {})
    ELSE LET merged  == Merge(default_dict, input_dict.d)
             invalid == (DOMAIN merged) \ (functions \cup {"bbox_to_anchor", "bbox_transform"})
             kept    == IF to_validate = "input"
                        THEN (DOMAIN input_dict.d) \cap functions
                        ELSE (DOMAIN merged) \cap functions
             values  == [k \in kept |-> merged[k]]
             failing == {k \in kept : ValidateEntry(table, k, values[k]).err /= "none"}
         IN  IF failing = {} THEN Checked("none", values, invalid)
             ELSE IF "projection" \in failing /\ table = "bar"
                  THEN Checked("Exception", values, invalid)
                  ELSE Checked("ValueError", values, invalid)


---------------------------------------------------------------------------
(* scale_bar, lines 280-298 and 314-317, and the names it looks up         *)

\* the error of the first of a sequence of calls that raised
FirstError(results) ==
    IF \A i \in DOMAIN results : results[i].err = "none" THEN "none"
    ELSE LET first == CHOOSE i \in DOMAIN results :
                          /\ results[i].err /= "none"
                          /\ \A j \in 1..(i - 1) : results[j].err = "none"
         IN  results[first].err

\* lines 281-283
ScaleBarPrimary(a) ==
    FirstError(<<ValidatePrimary("style", a.style),
                 ValidatePrimary("location", a.location),
                 ValidatePrimary("zorder", a.zorder)>>)

\* what lines 289-298 give from their five calls
DictsResult(bar, units, labels, text, aob) ==
    [err |-> FirstError(<<bar, units, labels, text, aob>>),
     bar |-> bar.val, units |-> units.val, labels |-> labels.val,
     text |-> text.val, aob |-> aob.val,
     invalid |-> bar.invalid \cup units.invalid \cup labels.invalid
                 \cup text.invalid \cup aob.invalid]

\* lines 289-298: d holds the module's default dictionaries, a the arguments
ScaleBarDicts(d, style, a) ==
    DictsResult(ValidateDictClean("bar", a.bar, DelKeys(d.bar, StyleDrops(style)),
                                  ValidateBarKeys \ StyleDrops(style), "all"),
                ValidateDictClean("units", a.units, d.units, ValidateUnitsKeys, "all"),
                ValidateDictClean("labels", a.labels, d.labels, ValidateLabelsKeys, "all"),
                ValidateDictClean("text", a.text, d.text, ValidateTextKeys, "all"),
                ValidateDictClean("aob", a.aob, d.aob, ValidateAobKeys, "all"))

\* lines 314-317 on the dictionaries of lines 289-298
TextMerged(dicts) ==
    [dicts EXCEPT
        !.units  = Merge(dicts.text, dicts.units),
        !.text   = Merge(dicts.text, [textcolors |-> dicts.text.textcolor]),
        !.labels = Merge(DelKeys(Merge(dicts.text, [textcolors |-> dicts.text.textcolor]),
                                 {"textcolor"}),
                         dicts.labels)]

\* the user's dictionaries of the runs: the bar with and without a
\* projection, with a key no table has, and with none
BarOverrides ==
    {NoDict, Dict([projection |-> "EPSG:3857"]), Dict([projection |-> "EPSG:4326"]),
     Dict([projection |-> "EPSG:3857", max |-> R(6), major_div |-> R(2)]),
     Dict([projection |-> "EPSG:3857", major_mult |-> R(2)]),
     Dict([max |-> R(6)])}

DefaultZorder == 99

LookupArgs ==
    [tier : Tiers, style : Styles, location : {"upper right"}, zorder : {DefaultZorder},
     bar : BarOverrides, units : {NoDict}, labels : {NoDict}, text : {NoDict},
     aob : {NoDict}, ax : AxesGiven, prop : {"style", "location", "zorder"}]

InitLookup ==
    /\ pc = "call"
    /\ op \in {"_validate", "_config_bar"}
    /\ args \in LookupArgs
    /\ ret = NoRet
    /\ warns = <<>>

\* lines 281-283, one of them: _validate(_VALIDATE_PRIMARY, prop, val)
CallValidate ==
    /\ pc = "call"
    /\ op = "_validate"
    /\ ret' = [err |-> ValidatePrimary(args.prop, args[args.prop]).err]
    /\ pc' = "done"
    /\ UNCHANGED <<op, args, warns>>

\* line 327 on the dictionary of lines 289-294
CallConfigBar ==
    /\ pc = "call"
    /\ op = "_config_bar"
    /\ LET dicts == ScaleBarDicts(DefaultsSB[args.tier], args.style, args)
       IN  ret' = [err |-> IF dicts.err /= "none" THEN dicts.err
                           ELSE ConfigBar(args.ax, dicts.bar).err]
    /\ pc' = "done"
    /\ UNCHANGED <<op, args, warns>>

SpecLookup == InitLookup /\ [][CallValidate \/ CallConfigBar]_vars

\* the keys read from each dictionary after line 317: by _config_bar (lines
\* 699-717) and by scale_bar (lines 331-534)
C18_KeysRead(style) ==
    [bar    |-> {"rotation", "projection", "unit", "max", "length", "major_mult",
                 "major_div", "minor_div", "minor_type", "height", "reverse"}
                \cup (IF style = "boxes" THEN {"facecolors", "edgecolors", "edgewidth"}
                      ELSE {"basecolors", "tickcolors", "minor_frac", "tick_loc",
                            "tickwidth"}),
     units  |-> {"label", "loc", "fontsize", "textcolor", "rotation", "rotation_mode",
                 "stroke_width", "stroke_color", "sep", "pad"},
     labels |-> {"style", "labels", "format", "format_int", "textcolors", "fontsize",
                 "stroke_width", "stroke_color", "rotation", "rotation_mode", "loc",
                 "sep", "pad"},
     text   |-> {"textcolor"},
     aob    |-> {"facecolor", "edgecolor", "alpha"}]

\* the keys read that the dictionaries do not have
C18_Missing(style, dicts) ==
    {<<c, k>> \in {"bar", "units", "labels", "text", "aob"} \X
                  UNION {C18_KeysRead(style)[c] : c \in {"bar", "units", "labels", "text", "aob"}} :
        k \in C18_KeysRead(style)[c] /\ k \notin DOMAIN dicts[c]}

\* C18: every name the pipeline looks up finds an entry: each property
\* validated by name (style, location, zorder) has a validator, and each
\* key _config_bar reads is in the bar dictionary merged with the defaults,
\* for every tier and every override.
C18_LookupsTotal ==
    (pc = "done" /\ op \in {"_validate", "_config_bar"}) => ret.err /= "KeyError"

\* what does hold: 'zorder' and 'major_mult' are the only names without an
\* entry
C18_OnlyTwoMissing ==
    /\ (pc = "done" /\ op = "_validate" /\ args.prop /= "zorder") => ret.err = "none"
    /\ op = "_config_bar" =>
          LET dicts == ScaleBarDicts(DefaultsSB[args.tier], args.style, args)
          IN  dicts.err = "none" =>
                 C18_Missing(args.style, TextMerged(dicts)) = {<<"bar", "major_mult">>}


---------------------------------------------------------------------------
(* The ScaleBar artist (core/scale_bar.py, lines 41-250) and scale_bar()   *)
(* as one machine.  args is the heap: the tier the module's defaults       *)
(* (_DEFAULT_BAR ... _DEFAULT_AOB) are bound to, the dictionaries of every *)
(* tier, the fields of one ScaleBar, the keys its user has given (a        *)
(* history of the calls, not a field), and the axes.                       *)

\* lines 74-92: as lines 289-298, with to_validate="input"
ScaleBarInitDicts(d, style, a) ==
    DictsResult(ValidateDictClean("bar", a.bar, DelKeys(d.bar, StyleDrops(style)),
                                  ValidateBarKeys \ StyleDrops(style), "input"),
                ValidateDictClean("units", a.units, d.units, ValidateUnitsKeys, "input"),
                ValidateDictClean("labels", a.labels, d.labels, ValidateLabelsKeys, "input"),
                ValidateDictClean("text", a.text, d.text, ValidateTextKeys, "input"),
                ValidateDictClean("aob", a.aob, d.aob, ValidateAobKeys, "input"))

\* the fields lines 62-92 assign
Fields(a, dicts) ==
    [style |-> a.style, location |-> a.location, zorder |-> a.zorder,
     bar |-> dicts.bar, units |-> dicts.units, labels |-> dicts.labels,
     text |-> dicts.text, aob |-> dicts.aob]

\* the keys of a component the caller gave
KeysGiven(a) ==
    [c \in {"bar", "units", "labels", "text", "aob"} |->
        IF a[c].given THEN DOMAIN a[c].d ELSE {}]

\* ScaleBar.__init__, lines 61-92: the error raised, or the fields stored
ScaleBarInit(d, a) ==
    IF ScaleBarPrimary(a) /= "none" THEN [err |-> ScaleBarPrimary(a)]
    ELSE LET dicts == ScaleBarInitDicts(d, a.style, a)
         IN  IF dicts.err /= "none" THEN [err |-> dicts.err]
             ELSE [err |-> "none", obj |-> Fields(a, dicts)]

\* mutation of StoreChecked: the assignment made whatever the validation said
StoreUnchecked(stored, checked) == checked.val

\* the setters, lines 108-195: self._x = val is reached only when the
\* validation returned
StoreChecked(stored, checked) == IF checked.err = "none" THEN checked.val ELSE stored

\* mutation of SetterDict: to_validate="input", as the constructor has it
SetterDictInput(table, val, stored, functions) ==
    IF ~val.given THEN Checked("ValueError", stored, {})
    ELSE ValidateDictClean(table, val, stored, functions, "input")

\* _validate_type(prop, val, dict), lines 136-183, then _validate_dict
SetterDict(table, val, stored, functions) ==
    IF ~val.given THEN Checked("ValueError", stored, {})
    ELSE ValidateDictClean(table, val, stored, functions, "all")

\* str.lower() on the sizes of the runs
Lower(size) ==
    CASE size = "XL" -> "xl"
      [] size = "Medium" -> "medium"
      [] OTHER -> size

\* ScaleBar.set_size, lines 239-250: the tier bound, or "" for the ValueError
SizeTier(size) ==
    LET s == Lower(size)
    IN  IF s \in {"xs", "xsmall", "x-small"} THEN "xs"
        ELSE IF s \in {"sm", "small"} THEN "sm"
        ELSE IF s \in {"md", "medium"} THEN "md"
        ELSE IF s \in {"lg", "large"} THEN "lg"
        ELSE IF s \in {"xl", "xlarge", "x-large"} THEN "xl"
        ELSE ""

\* the result of scale_bar(draw=False) that the model keeps: the error, the
\* configuration of line 327 and the segments of line 330
Drawn(out) ==
    [err |-> out.err, bar_max |-> out.bar_max, bar_length |-> out.bar_length,
     units_label |-> out.units_label, major_div |-> out.major_div,
     minor_div |-> out.minor_div, segments |-> out.segments]

\* the heap after lines 302-332: what the computation r left in the default
\* dictionaries of the tier it read
ComputeInto(h, r) ==
    [out  |-> Drawn(r.out),
     heap |-> [h EXCEPT !.defaults[h.tier].labels = r.heap.defaults.labels,
                        !.defaults[h.tier].units = r.heap.defaults.units]]

\* lines 302-332 on the heap h, with the _bar of line 290
ScaleBarCompute(h, a, bar) ==
    ComputeInto(h, Compute([ax |-> h.ax, bar |-> bar, labels |-> a.labels,
                            units |-> a.units, text |-> a.text,
                            defaults |-> [labels |-> h.defaults[h.tier].labels,
                                          units |-> h.defaults[h.tier].units,
                                          text |-> h.defaults[h.tier].text]]))

\* lines 302-332, reached when none of lines 289-298 raised
BodyFrom(h, a, dicts) ==
    IF dicts.err /= "none"
    THEN [out |-> Drawn(ComputeRaise(dicts.err, <<>>)), heap |-> h]
    ELSE ScaleBarCompute(h, a, dicts.bar)

\* scale_bar, lines 289-332
ScaleBarBody(h, a) == BodyFrom(h, a, ScaleBarDicts(h.defaults[h.tier], a.style, a))

\* lines 289-332, reached when none of lines 281-283 raised
CallFrom(h, a, primary) ==
    IF primary /= "none"
    THEN [out |-> Drawn(ComputeRaise(primary, <<>>)), heap |-> h]
    ELSE ScaleBarBody(h, a)

\* scale_bar with draw=False, lines 281-332
ScaleBarCall(h, a) == CallFrom(h, a, ScaleBarPrimary(a))

\* ScaleBar.draw, lines 211-221: the arguments scale_bar is called with;
\* the renderer's dpi is the figure's
DrawArguments(h) ==
    [style |-> h.obj.style, location |-> h.obj.location, zorder |-> h.obj.zorder,
     bar |-> Dict(IF "raster_dpi" \in DOMAIN h.obj.bar THEN h.obj.bar
                  ELSE Merge(h.obj.bar, [raster_dpi |-> h.ax.dpi])),
     units |-> Dict(h.obj.units), labels |-> Dict(h.obj.labels),
     text |-> Dict(h.obj.text), aob |-> Dict(h.obj.aob)]


\* the arguments of the constructions and of the calls of scale_bar()
CtorArgs ==
    [style : Styles, location : {"upper right"}, zorder : {DefaultZorder},
     bar : {NoDict, Dict([projection |-> "EPSG:3857"])}, units : {NoDict},
     labels : {NoDict, Dict([format |-> ".1f"])}, text : {NoDict}, aob : {NoDict}]

\* the same with a style, a location or a label style that no list has
CallArgs ==
    CtorArgs
    \cup {[a EXCEPT !.style = "lines"] : a \in {b \in CtorArgs : ~b.bar.given}}
    \cup {[a EXCEPT !.location = "middle"] : a \in {b \in CtorArgs : ~b.bar.given}}

\* the values the setters are given: None for a dictionary, a value the
\* tables accept and one they reject
SetterValues ==
    [style    |-> {"ticks", "boxes", "lines"},
     location |-> {"center", "middle"},
     zorder   |-> {DefaultZorder, 1},
     bar      |-> {NoDict, Dict([max |-> R(6)]), Dict([max |-> R(-1)]),
                   Dict([projection |-> "EPSG:0"])},
     units    |-> {NoDict, Dict([label |-> "km"]), Dict([loc |-> "inside"])},
     labels   |-> {NoDict, Dict([style |-> "last_only"]), Dict([style |-> "minor"])},
     text     |-> {NoDict, Dict([fontstyle |-> "bold"])},
     aob      |-> {NoDict, Dict([pad |-> R(-1)])}]

Sizes == {"medium", "XL", "huge"}

\* the spans of the x axis the view is set to
MaxSpan == 20000

Spans == {R(5001), R(MaxSpan)}

\* after the import of the module (line 36 binds the medium tier) and the
\* construction of a ScaleBar, its fields as lines 62-92 store them
InitArtist ==
    /\ pc = "idle"
    /\ op = "init"
    /\ \E a \in CtorArgs, ax \in AxesGiven :
          args = [tier |-> "md", defaults |-> DefaultsSB,
                  obj |-> Fields(a, ScaleBarInitDicts(DefaultsSB["md"], a.style, a)),
                  user |-> KeysGiven(a), ax |-> ax]
    /\ ret = [err |-> "none"]
    /\ warns = <<>>

\* ScaleBar(...), lines 44-92, and scale_bar(draw=True), lines 265-278,
\* which adds the new ScaleBar to the axes
ArtistNew(a) ==
    /\ pc = "idle"
    /\ LET r == ScaleBarInit(args.defaults[args.tier], a)
       IN  /\ ret' = [err |-> r.err]
           /\ args' = IF r.err = "none"
                      THEN [args EXCEPT !.obj = r.obj, !.user = KeysGiven(a)]
                      ELSE args
    /\ op' = "new"
    /\ UNCHANGED <<pc, warns>>

\* the call of scale_bar has ended: what it gave and the heap it left
Returned(r) ==
    /\ ret' = r.out
    /\ args' = r.heap

\* scale_bar(ax, draw=False, ...), lines 280-332
ArtistScaleBar(a) ==
    /\ pc = "idle"
    /\ Returned(ScaleBarCall(args, a))
    /\ op' = "scale_bar"
    /\ UNCHANGED <<pc, warns>>

\* the setters of style (lines 105-108), location and loc (lines 115-127)
\* and zorder (lines 192-195)
ArtistSetPrimary(prop, val) ==
    /\ pc = "idle"
    /\ LET c == ValidatePrimary(prop, val)
       IN  /\ ret' = [err |-> c.err]
           /\ args' = [args EXCEPT !.obj[prop] = StoreChecked(@, c)]
    /\ op' = "set_" \o prop
    /\ UNCHANGED <<pc, warns>>

\* the setters of bar, units, labels, text and aob, lines 134-185
ArtistSetDict(table, val) ==
    /\ pc = "idle"
    /\ LET functions == CASE table = "bar" -> ValidateBarKeys \ StyleDrops(args.obj.style)
                          [] table = "units" -> ValidateUnitsKeys
                          [] table = "labels" -> ValidateLabelsKeys
                          [] table = "text" -> ValidateTextKeys
                          [] table = "aob" -> ValidateAobKeys
           c == SetterDict(table, val, args.obj[table], functions)
       IN  /\ ret' = [err |-> c.err]
           /\ args' = [args EXCEPT
                          !.obj[table] = StoreChecked(@, c),
                          !.user[table] = IF c.err = "none"
                                          THEN @ \cup ((DOMAIN val.d) \cap functions)
                                          ELSE @]
    /\ op' = "set_" \o table
    /\ UNCHANGED <<pc, warns>>

\* mutation of ArtistSetSize: the tables of the tier named are written into
\* the tier that is bound, in place of binding the tier named
ArtistSetSizeInPlace(size) ==
    /\ pc = "idle"
    /\ ret' = [err |-> IF SizeTier(size) = "" THEN "ValueError" ELSE "none"]
    /\ args' = IF SizeTier(size) = "" THEN args
               ELSE [args EXCEPT !.defaults[args.tier] = args.defaults[SizeTier(size)]]
    /\ op' = "set_size"
    /\ UNCHANGED <<pc, warns>>

\* ScaleBar.set_size, lines 231-250
ArtistSetSize(size) ==
    /\ pc = "idle"
    /\ ret' = [err |-> IF SizeTier(size) = "" THEN "ValueError" ELSE "none"]
    /\ args' = IF SizeTier(size) = "" THEN args ELSE [args EXCEPT !.tier = SizeTier(size)]
    /\ op' = "set_size"
    /\ UNCHANGED <<pc, warns>>

\* the host: ax.set_xlim(), a zoom or a pan, read at lines 749-755
ArtistSetLim(span) ==
    /\ pc = "idle"
    /\ args' = [args EXCEPT !.ax.xrange = span, !.ax.xmetres = span]
    /\ ret' = [err |-> "none"]
    /\ op' = "set_xlim"
    /\ UNCHANGED <<pc, warns>>

\* ScaleBar.draw, lines 208-226
ArtistDraw ==
    /\ pc = "idle"
    /\ Returned(ScaleBarCall(args, DrawArguments(args)))
    /\ op' = "draw"
    /\ UNCHANGED <<pc, warns>>

NextArtist ==
    \/ \E a \in CallArgs : ArtistNew(a)
    \/ \E a \in CallArgs : ArtistScaleBar(a)
    \/ \E prop \in {"style", "location", "zorder"} :
          \E val \in SetterValues[prop] : ArtistSetPrimary(prop, val)
    \/ \E table \in {"bar", "units", "labels", "text", "aob"} :
          \E val \in SetterValues[table] : ArtistSetDict(table, val)
    \/ \E size \in Sizes : ArtistSetSize(size)
    \/ \E span \in Spans : ArtistSetLim(span)
    \/ ArtistDraw

SpecArtist == InitArtist /\ [][NextArtist]_vars


---------------------------------------------------------------------------
(* Properties of the artist, under SpecArtist                              *)

\* C17: when the validation of a value raises, in scale_bar(), in the
\* construction of a ScaleBar or in a setter, nothing has been mutated: the
\* default dictionaries of every tier, the tier bound and the fields of the
\* ScaleBar (style, location, zorder and the five dictionaries) are what
\* they were before the call.
C17_ErrorsMutateNothing ==
    [][ret'.err \in {"ValueError", "Exception", "KeyError"} =>
          /\ args'.defaults = args.defaults
          /\ args'.tier = args.tier
          /\ args'.obj = args.obj]_vars

\* a setter has raised on a ScaleBar that holds a value of an earlier,
\* accepted assignment
C17_Witness ==
    /\ op = "set_bar"
    /\ ret.err = "ValueError"
    /\ "max" \in DOMAIN args.obj.bar
    /\ args.obj.bar.max = R(6)
    /\ args.obj.style = "ticks"

\* the keys of component c that a draw is to take from the tier: those of
\* the tier's dictionary that the user has not given
C12_FromTier(h, c) ==
    (DOMAIN h.defaults[h.tier][c])
        \ (h.user[c] \cup (IF c = "bar" THEN StyleDrops(h.obj.style) ELSE {}))

C12_PartialDicts ==
    op = "draw" =>
        LET dicts == ScaleBarDicts(args.defaults[args.tier], args.obj.style,
                                   DrawArguments(args))
        IN  dicts.err = "none" =>
               \A c \in {"bar", "labels"} :
                  (DOMAIN args.obj[c] = args.user[c]) =>
                     \A k \in C12_FromTier(args, c) :
                        /\ k \in DOMAIN dicts[c]
                        /\ dicts[c][k] = args.defaults[args.tier][c][k]

---------------------------------------------------------------------------
(* scale_bar, lines 351-453: the bar row and the label row                 *)

\* lines 351-360: the invisible box that opens the bar row (width in points)
LeadSpacer(major_width, major_div, minor_div, label_style) ==
    IF label_style = "last_only" /\ major_div = 1 /\ (minor_div = 1 \/ minor_div = 0)
    THEN <<>>
    ELSE IF minor_div > 1
         THEN <<RDiv(RDiv(major_width, R(minor_div)), R(2))>>
         ELSE <<RDiv(major_width, R(2))>>

\* lines 351-376, 408: the widths of the children of bar_pack, left to right
BarArtists(boxes, major_width, major_div, minor_div, label_style) ==
    LeadSpacer(major_width, major_div, minor_div, label_style)
    \o [i \in 1..Len(boxes) |-> boxes[i].width]

\* lines 422, 438-442, 453: the widths of the children of label_pack, one
\* per element of zip(segments, label_textcolors)
LabelArtists(segments, textcolors, major_div, minor_div) ==
    [i \in 1..MinOf(Len(segments),
                    Len(ExpandListCycle(textcolors, (major_div * minor_div) + 1))) |->
        segments[i].length]

\* the default text colour of every tier, as _expand_list makes it a list
LabelTextColors == <<"black">>

\* the slot's label is drawn at l["length"]/2 inside its box
C21_Centre(slots, i) ==
    RAdd(RSum(SubSeq(slots, 1, i - 1)), RDiv(slots[i], R(2)))

\* the boxes that precede segment i in the bar row
C21_Preceding(segs, i) ==
    Cardinality({j \in 1..(i - 1) : segs[j].type /= "spacer"})

C21_Aligned(segs, row, slots) ==
    /\ Len(slots) = Len(segs)
    /\ \A i \in 1..Len(segs) :
          segs[i].type /= "spacer" =>
              /\ Len(row) >= 1 + C21_Preceding(segs, i)
              /\ C21_Centre(slots, i) = RSum(SubSeq(row, 1, 1 + C21_Preceding(segs, i)))

C21_Collapse ==
    args.label_style = "last_only" /\ args.major_div = 1 /\ args.minor_div \in {0, 1}

C21_Rows ==
    C21_Aligned(ret.segments,
                BarArtists(ret.boxes, RMul(args.major_width, R(PointsPerInch)),
                           args.major_div, args.minor_div, args.label_style),
                LabelArtists(ret.segments, LabelTextColors,
                             args.major_div, args.minor_div))

\* C21: for every valid (major_div, minor_div, minor_type, label_style) other
\* than the single-segment collapse, every segment has exactly one label slot
\* and the horizontal centre of each non-spacer segment's slot (the lengths of
\* the slots before it plus half its own) is the position of the segment's
\* boundary in the bar row (the leading spacer plus the boxes before it).
C21_LabelsUnderBoundaries ==
    (pc = "done" /\ op = "boxes" /\ ret.err = "none" /\ ~C21_Collapse) => C21_Rows

\* Where the rows do agree: minor divisions drawn (minor_type "all", or
\* "first" with a second major division) or no minor division counted
\* (minor_div = 1).
C21_AlignedWhenMinorsDrawn ==
    (/\ pc = "done" /\ op = "boxes" /\ ret.err = "none" /\ ~C21_Collapse
     /\ \/ args.minor_div = 1
        \/ args.minor_div > 1 /\ args.minor_type = "all"
        \/ args.minor_div > 1 /\ args.minor_type = "first" /\ args.major_div > 1)
    => C21_Rows

---------------------------------------------------------------------------
(* scale_bar lines 330-500, _make_ticks, _align_dual lines 1239-1263 and   *)
(* _render_as_image: the temporary figure of a rendering                   *)

\* _make_ticks, lines 1168 and 1189-1206: the base lines and the ticks, drawn
\* at value/bar_max*bar_length
MakeTicks(segments, bar_max, bar_length, bar_facecolors, bar_edgecolors) ==
    LET kept == SelectSeq(segments, LAMBDA sg : sg.type /= "spacer")
    IN  IF /\ RIsZero(bar_max)
           /\ \/ MinOf(Len(kept) - 1, Len(bar_facecolors)) > 0
              \/ MinOf(Len(kept), Len(bar_edgecolors)) > 0
        THEN [err |-> "ZeroDivisionError", lines |-> <<>>, ticks |-> <<>>]
        ELSE [err   |-> "none",
              lines |-> [i \in 1..MinOf(Len(kept) - 1, Len(bar_facecolors)) |->
                            RMul(RDiv(kept[i + 1].value.v, bar_max), bar_length)],
              ticks |-> [i \in 1..MinOf(Len(kept), Len(bar_edgecolors)) |->
                            [x    |-> RMul(RDiv(kept[i].value.v, bar_max), bar_length),
                             type |-> kept[i].type]]]

\* Python's a // b for a >= 0, b > 0
FloorDiv(a, b) == a \div b

\* lines 1253-1255: the two lines of the image that are sampled
SampleLines(size) ==
    [dim_top |-> FloorDiv(size, 2) + 15, dim_bot |-> FloorDiv(size, 2) - 15]

\* numpy indexing of an axis of `size` entries: IndexError outside
\* -size..size-1, a negative index counts from the end
IndexRaises(i, size) == i >= size \/ i < -size

\* lines 1259-1264: arr_temp[dim_top] is taken first, then arr_temp[dim_bot]
SliceLines(size) ==
    IF \/ IndexRaises(SampleLines(size).dim_top, size)
       \/ IndexRaises(SampleLines(size).dim_bot, size)
    THEN "IndexError" ELSE "none"

CanvasStyles == {"boxes", "ticks"}

MaxImage == 33

\* what _config_bar hands over: bar_length is 0 exactly when bar_max is
ScaleArgs ==
    {a \in [bar_max : BarMaxes, major_width : MajorWidths \cup {R(0)},
            major_div : 1..MaxMajorDiv, minor_div : 0..MaxMinorDiv,
            minor_type : MinorTypes, style : CanvasStyles] :
        RIsZero(a.bar_max) <=> RIsZero(a.major_width)}

\* the rendered image of the two bars: its extent along the stacking dimension
ImageArgs == [size : 1..MaxImage, bar_vertical : BOOLEAN]

InitCanvas ==
    /\ pc = "call"
    /\ \/ op = "scale_bar" /\ args \in ScaleArgs
       \/ op = "_align_dual" /\ args \in ImageArgs
    /\ ret = [err |-> "none", open |-> 0]
    /\ warns = <<>>

\* line 330, then line 342 when line 330 returned
SegmentsThenFigure(seg) ==
    /\ pc' = IF seg.err = "none" THEN "temp" ELSE "done"
    /\ ret' = [err |-> seg.err, open |-> IF seg.err = "none" THEN 1 ELSE 0,
               segments |-> seg.segments]

\* scale_bar lines 330-342 and _align_dual line 1241: _temp_figure opens a
\* figure that pyplot keeps until it is closed
CanvasAllocate ==
    /\ pc = "call"
    /\ IF op = "scale_bar"
       THEN SegmentsThenFigure(ConfigSeg(args.bar_max, args.major_width, args.major_div,
                                         args.minor_div, args.minor_type, "major",
                                         NoLabels, "None", FALSE))
       ELSE pc' = "temp" /\ ret' = [err |-> "none", open |-> 1]
    /\ UNCHANGED <<op, args, warns>>

\* line 388, when _make_ticks returned or raised
TicksThenPack(t) ==
    /\ pc' = IF t.err = "none" THEN "built" ELSE "done"
    /\ ret' = [ret EXCEPT !.err = t.err]

\* scale_bar lines 346-496: the bar row of either style
CanvasBuild ==
    /\ pc = "temp"
    /\ op = "scale_bar"
    /\ IF args.style = "ticks"
       THEN TicksThenPack(MakeTicks(ret.segments, args.bar_max,
                                    RMul(args.major_width, R(args.major_div)),
                                    ExpandListCycle(<<"black">>, args.major_div * args.minor_div),
                                    ExpandListCycle(<<"black">>, (args.major_div * args.minor_div) + 1)))
       ELSE pc' = "built" /\ ret' = ret
    /\ UNCHANGED <<op, args, warns>>

\* _render_as_image (line 500 of scale_bar, line 1243 of _align_dual): the
\* figure is drawn and, at line 1333, closed
CanvasRender ==
    /\ \/ pc = "built" /\ op = "scale_bar" /\ pc' = "done"
       \/ pc = "temp" /\ op = "_align_dual" /\ pc' = "image"
    /\ ret' = [ret EXCEPT !.open = @ - 1]
    /\ UNCHANGED <<op, args, warns>>

\* _align_dual lines 1245-1263
CanvasSample ==
    /\ pc = "image"
    /\ op = "_align_dual"
    /\ pc' = "done"
    /\ ret' = [err |-> SliceLines(args.size), open |-> ret.open,
               dim_top |-> SampleLines(args.size).dim_top,
               dim_bot |-> SampleLines(args.size).dim_bot]
    /\ UNCHANGED <<op, args, warns>>

NextCanvas == CanvasAllocate \/ CanvasBuild \/ CanvasRender \/ CanvasSample

SpecCanvas == InitCanvas /\ [][NextCanvas]_vars

C22_ReleasedOnReturn ==
    (pc = "done" /\ (ret.err = "none" \/ op = "_align_dual")) => ret.open = 0

\* C29: for every rendered dual-bar image, whatever its size, the two lines
\* _align_dual samples (midpoint - 15 and midpoint + 15 along the stacking
\* dimension) are valid, distinct, non-wrapping indices of the image: the
\* measurement raises no index error and reads no wrapped-around line.
C29_SamplesInsideImage ==
    (pc = "done" /\ op = "_align_dual") =>
        /\ ret.err = "none"
        /\ ret.dim_bot >= 0
        /\ ret.dim_top < args.size
        /\ ret.dim_bot /= ret.dim_top

\* From 31 lines on, both sampled lines are lines of the image.
C29_InsideFromThirtyOne ==
    (pc = "done" /\ op = "_align_dual" /\ args.size >= 31) =>
        /\ ret.err = "none"
        /\ ret.dim_bot >= 0
        /\ ret.dim_top < args.size
        /\ ret.dim_bot /= ret.dim_top

---------------------------------------------------------------------------
(* ScaleBar.draw lines 211-216, scale_bar lines 289-304 and                *)
(* _resolve_raster_dpi: the resolution of the temporary rendering          *)

\* _resolve_raster_dpi, lines 1342-1346; renderer is None when not passed
ResolveRasterDpi(bar, fig_dpi, renderer) ==
    [raster_dpi |->
        IF "raster_dpi" \in DOMAIN bar /\ ~IsNone(bar["raster_dpi"]) THEN bar["raster_dpi"]
        ELSE IF ~IsNone(renderer) THEN renderer ELSE fig_dpi,
     raster_dpi_scale |->
        IF "raster_dpi_scale" \in DOMAIN bar THEN bar["raster_dpi_scale"] ELSE R(1)]

\* ScaleBar.draw, lines 211-216: the copy of self._bar given to scale_bar
DrawBar(stored, fig_dpi, renderer) ==
    IF "raster_dpi" \in DOMAIN stored /\ ~IsNone(stored["raster_dpi"]) THEN stored
    ELSE Merge(stored, [raster_dpi |-> ResolveRasterDpi(stored, fig_dpi, renderer).raster_dpi])

\* scale_bar, lines 302-304 on the dictionary lines 289-294 return
RasterFrom(checked, fig_dpi) ==
    [err |-> checked.err, invalid |-> checked.invalid,
     raster_dpi |->
        IF checked.err /= "none" THEN None
        ELSE RMul(ResolveRasterDpi(checked.val, fig_dpi, None).raster_dpi,
                  ResolveRasterDpi(checked.val, fig_dpi, None).raster_dpi_scale)]

\* scale_bar, lines 289-304, called by draw with the bar of lines 211-216
RasterOfDraw(d, style, stored, fig_dpi, renderer) ==
    RasterFrom(ValidateDictClean("bar", Dict(DrawBar(stored, fig_dpi, renderer)),
                                 DelKeys(d.bar, StyleDrops(style)),
                                 ValidateBarKeys \ StyleDrops(style), "all"),
               fig_dpi)

\* the bar dictionaries given to ScaleBar(...)
RasterBars ==
    {Dict([projection |-> "EPSG:3857"]),
     Dict([projection |-> "EPSG:3857", raster_dpi |-> R(200)]),
     Dict([projection |-> "EPSG:3857", raster_dpi |-> R(200), raster_dpi_scale |-> R(2)]),
     Dict([projection |-> "EPSG:3857", raster_dpi_scale |-> R(2)])}

FigureDpis == {R(72), R(100)}

RendererDpis == {R(100), R(300)}

RasterArgs ==
    [tier : Tiers, style : Styles, bar : RasterBars,
     fig_dpi : FigureDpis, renderer : RendererDpis]

InitRaster ==
    /\ pc = "call"
    /\ op = "draw"
    /\ args \in RasterArgs
    /\ ret = NoRet
    /\ warns = <<>>

\* the field self._bar that lines 74-78 store for the bar given
StoredBar(d, style, bar) ==
    ValidateDictClean("bar", bar, DelKeys(d.bar, StyleDrops(style)),
                      ValidateBarKeys \ StyleDrops(style), "input").val

\* ScaleBar.draw of a ScaleBar constructed with args.bar
CallDraw ==
    /\ pc = "call"
    /\ op = "draw"
    /\ ret' = RasterOfDraw(DefaultsSB[args.tier], args.style,
                           StoredBar(DefaultsSB[args.tier], args.style, args.bar),
                           args.fig_dpi, args.renderer)
    /\ pc' = "done"
    /\ UNCHANGED <<op, args, warns>>

SpecRaster == InitRaster /\ [][CallDraw]_vars

\* the resolution the user asked for in the bar dictionary, None if none
C23_Asked(bar) ==
    IF "raster_dpi" \in DOMAIN bar
    THEN RMul(bar["raster_dpi"],
              IF "raster_dpi_scale" \in DOMAIN bar THEN bar["raster_dpi_scale"] ELSE R(1))
    ELSE None

C23_FigureDpiAlways ==
    (pc = "done" /\ op = "draw") =>
        /\ ret.err = "none"
        /\ ret.raster_dpi = args.fig_dpi
        /\ "raster_dpi" \in ret.invalid

\* C24: for every configuration validation accepts - max = 0 and
\* minor_div = 0 included - computing the segments (with the major-retagging
\* test of minor_type 'all') and the tick positions divides by zero nowhere
\* and takes no modulus by zero.
C24_NoZeroDivision ==
    (pc = "done" /\ op = "scale_bar") => ret.err /= "ZeroDivisionError"

\* The divisions by zero are those by bar_max = 0: the modulus of line 973
\* (minor_type 'all', minor_div >= 2) and the quotient of _make_ticks.
\* minor_div = 0 divides nothing.
C24_OnlyZeroMax ==
    (pc = "done" /\ op = "scale_bar" /\ ret.err = "ZeroDivisionError") =>
        /\ RIsZero(args.bar_max)
        /\ \/ args.style = "ticks"
           \/ args.minor_type = "all" /\ args.minor_div > 1

---------------------------------------------------------------------------
(* The setters of the style and of the five dictionaries on their own:     *)
(* assignments only, to the ScaleBar of InitArtist                         *)

\* the keys the setter of a component validates, for the style stored
SetterFunctions(table, style) ==
    CASE table = "bar" -> ValidateBarKeys \ StyleDrops(style)
      [] table = "units" -> ValidateUnitsKeys
      [] table = "labels" -> ValidateLabelsKeys
      [] table = "text" -> ValidateTextKeys
      [] table = "aob" -> ValidateAobKeys

\* the dictionaries assigned: keys of the tables, a key of no table
\* ('colour'), a value a table rejects, and None
SetterDicts ==
    [bar    |-> {NoDict, Dict([max |-> R(6)]), Dict([projection |-> "EPSG:3857"]),
                 Dict([projection |-> "EPSG:2263", max |-> R(3)])},
     units  |-> {Dict([label |-> "km"]), Dict([label |-> "mi", colour |-> "red"]),
                 Dict([loc |-> "inside"])},
     labels |-> {Dict([style |-> "last_only"]), Dict([format |-> ".1f"])},
     text   |-> {Dict([fontstyle |-> "bold"])},
     aob    |-> {Dict([pad |-> R(-1)])}]

SetterTables == {"bar", "units", "labels", "text", "aob"}

NextSetters ==
    \/ \E val \in Styles : ArtistSetPrimary("style", val)
    \/ \E table \in SetterTables : \E val \in SetterDicts[table] : ArtistSetDict(table, val)

SpecSetters == InitArtist /\ [][NextSetters]_vars

\* a step that is the successful assignment of val to the component
C25_Assigned(table, val) ==
    ArtistSetDict(table, val) /\ ret'.err = "none"

---------------------------------------------------------------------------
(* set_size of the package (__init__.py, lines 13-21) and of the three     *)
(* classes.  args holds the tier each module's defaults are bound to.      *)

\* NorthArrow.set_size, core/north_arrow.py lines 241-252
NorthArrowTier(size) ==
    LET s == Lower(size)
    IN  IF s \in {"xs", "xsmall", "x-small"} THEN "xs"
        ELSE IF s \in {"sm", "small"} THEN "sm"
        ELSE IF s \in {"md", "medium"} THEN "md"
        ELSE IF s \in {"lg", "large"} THEN "lg"
        ELSE IF s \in {"xl", "xlarge", "x-large"} THEN "xl"
        ELSE ""

\* mutation of InsetMapTier: a list of aliases without 'x-large'
InsetMapTierShort(size) ==
    LET s == Lower(size)
    IN  IF s \in {"xs", "xsmall", "x-small"} THEN "xs"
        ELSE IF s \in {"sm", "small"} THEN "sm"
        ELSE IF s \in {"md", "medium"} THEN "md"
        ELSE IF s \in {"lg", "large"} THEN "lg"
        ELSE IF s \in {"xl", "xlarge"} THEN "xl"
        ELSE ""

\* InsetMap.set_size, core/inset_map.py lines 203-214
InsetMapTier(size) ==
    LET s == Lower(size)
    IN  IF s \in {"xs", "xsmall", "x-small"} THEN "xs"
        ELSE IF s \in {"sm", "small"} THEN "sm"
        ELSE IF s \in {"md", "medium"} THEN "md"
        ELSE IF s \in {"lg", "large"} THEN "lg"
        ELSE IF s \in {"xl", "xlarge", "x-large"} THEN "xl"
        ELSE ""

Modules == {"na", "sb", "im"}

ModuleTier(module, size) ==
    CASE module = "na" -> NorthArrowTier(size)
      [] module = "sb" -> SizeTier(size)
      [] module = "im" -> InsetMapTier(size)

\* the names of the runs: every alias, two in other case, two unknown
PackageSizes ==
    {"xs", "xsmall", "x-small", "sm", "small", "md", "medium", "lg", "large",
     "xl", "xlarge", "x-large", "XL", "Medium", "huge", ""}

ClassSizes == {"xs", "large", "tiny"}

\* after the import of the package: lines 33, 36 and 32 of the three modules
\* bind the medium tier.  named and direct are history: the tier of the last
\* valid call of the package's set_size, and whether a class's own set_size
\* was called since.
InitSize ==
    /\ pc = "idle"
    /\ op = "import"
    /\ args = [na |-> "md", sb |-> "md", im |-> "md", named |-> "md", direct |-> FALSE]
    /\ ret = [err |-> "none", size |-> "md"]
    /\ warns = <<>>

\* __init__.py lines 19-21: the three calls in their order; the first that
\* raises ends the call
PackageTiers(h, size) ==
    IF NorthArrowTier(size) = "" THEN h
    ELSE IF SizeTier(size) = "" THEN [h EXCEPT !.na = NorthArrowTier(size), !.direct = TRUE]
    ELSE IF InsetMapTier(size) = ""
         THEN [h EXCEPT !.na = NorthArrowTier(size), !.sb = SizeTier(size), !.direct = TRUE]
    ELSE [na |-> NorthArrowTier(size), sb |-> SizeTier(size), im |-> InsetMapTier(size),
          named |-> NorthArrowTier(size), direct |-> FALSE]

PackageSetSize(size) ==
    /\ pc = "idle"
    /\ args' = PackageTiers(args, size)
    /\ ret' = [err |-> IF "" \in {NorthArrowTier(size), SizeTier(size), InsetMapTier(size)}
                       THEN "ValueError" ELSE "none",
               size |-> size]
    /\ op' = "set_size"
    /\ UNCHANGED <<pc, warns>>

\* NorthArrow.set_size, ScaleBar.set_size or InsetMap.set_size called alone
ClassSetSize(module, size) ==
    /\ pc = "idle"
    /\ args' = IF ModuleTier(module, size) = "" THEN args
               ELSE [args EXCEPT ![module] = ModuleTier(module, size), !.direct = TRUE]
    /\ ret' = [err |-> IF ModuleTier(module, size) = "" THEN "ValueError" ELSE "none",
               size |-> size]
    /\ op' = module \o ".set_size"
    /\ UNCHANGED <<pc, warns>>

NextSize ==
    \/ \E size \in PackageSizes : PackageSetSize(size)
    \/ \E module \in Modules : \E size \in ClassSizes : ClassSetSize(module, size)

SpecSize == InitSize /\ [][NextSize]_vars

\* the tier a name stands for, case apart: "" when it is no accepted alias
C26_Named(size) ==
    LET alias == [xs |-> {"xs", "xsmall", "x-small"}, sm |-> {"sm", "small"},
                  md |-> {"md", "medium"}, lg |-> {"lg", "large"},
                  xl |-> {"xl", "xlarge", "x-large"}]
    IN  IF \E t \in Tiers : Lower(size) \in alias[t]
        THEN CHOOSE t \in Tiers : Lower(size) \in alias[t]
        ELSE ""

\* C26: after any sequence of calls of the package's set_size the scale-bar,
\* north-arrow and inset-map modules use the tables of one tier, the one
\* named (in any case, by any alias) in the last valid call; a call with an
\* unknown name raises ValueError and changes the tier of none of the three.
C26_SizeCoherent ==
    /\ [](~args.direct =>
            /\ args.na = args.named /\ args.sb = args.named /\ args.im = args.named)
    /\ [][op' = "set_size" =>
            IF C26_Named(ret'.size) = ""
            THEN /\ ret'.err = "ValueError"
                 /\ args'.na = args.na /\ args'.sb = args.sb /\ args'.im = args.im
            ELSE /\ ret'.err = "none"
                 /\ args'.named = C26_Named(ret'.size)
                 /\ args'.na = args'.named /\ args'.sb = args'.named
                 /\ args'.im = args'.named]_vars

\* the package's call with an unknown name, after a call that bound the
\* tables of 'xl' in the three modules
C26_Witness ==
    /\ op = "set_size"
    /\ ret = [err |-> "ValueError", size |-> "huge"]
    /\ args = [na |-> "xl", sb |-> "xl", im |-> "xl", named |-> "xl", direct |-> FALSE]

---------------------------------------------------------------------------
(* The tables of the size tiers, under SpecArtist                          *)

---------------------------------------------------------------------------
(* How far the rounding moves the bar, under SpecLen                       *)

\* the call took the length branch of lines 886-919 and returned
C28_LengthDriven ==
    /\ LenReturned
    /\ IsNone(args.bar_max)
    /\ (~IsNone(args.bar_length)
          \/ (IsNone(args.bar_major_mult) /\ IsNone(args.bar_major_div)))

\* bar_max lies between 2/3 and 4/3 of x
C28_Within(bar_max, x) ==
    /\ RLe(RMul(Frac(2, 3), x), bar_max)
    /\ RLe(bar_max, RMul(Frac(4, 3), x))

\* the positive implied maxes of the call
C28_Positive == {x \in C3_Implied : RLt(R(0), x)}

\* C28: in the length-driven path, for every positive implied max (the axis
\* range times the length over the axis inches), the rounded bar_max lies
\* between 2/3 and 4/3 of the implied max.
C28_RoundingStaysClose ==
    (C28_LengthDriven /\ C28_Positive /= {}) =>
        \E x \in C28_Positive : C28_Within(ret.bar_max, x)

\* what holds instead: the rounding stays within the factor when the implied
\* max is at least 1.5, the least value the search of lines 896-900
\* normalises into the range of the table
C28_CloseFromThreeHalves ==
    (C28_LengthDriven /\ C28_Positive /= {}
       /\ (\A x \in C28_Positive : RLe(Frac(3, 2), x))) =>
        \E x \in C28_Positive : C28_Within(ret.bar_max, x)

\* below 1.5 the table's least entry is returned, whatever the implied max
C28_LeastEntryBelow ==
    (C28_LengthDriven /\ C28_Positive /= {}
       /\ (\A x \in C28_Positive : RLt(x, Frac(3, 2)))) =>
        ret.bar_max = R(2)

---------------------------------------------------------------------------
(* utils/usa.py: USA.filter                                                *)

UsaNone == [t |-> "None"]
UsaBool(b) == [t |-> "bool", v |-> b]
UsaInt(n) == [t |-> "int", v |-> n]
UsaStr(s) == [t |-> "str", v |-> s]
UsaList(s) == [t |-> "list", v |-> s]

UsaResult(err, val, w) == [err |-> err, val |-> val, warns |-> w]

\* what _load_json reads, lines 32-35: usa.json is not in the source tree;
\* these are rows with the keys that filter reads, one of them with a FIPS
\* code that line 112 names as invalid
UsaJson ==
    <<[fips |-> "01", name |-> "Alabama", abbr |-> "AL", valid |-> TRUE, state |-> TRUE,
       contiguous |-> TRUE, territory |-> FALSE, region |-> UsaStr("South")],
      [fips |-> "02", name |-> "Alaska", abbr |-> "AK", valid |-> TRUE, state |-> TRUE,
       contiguous |-> FALSE, territory |-> FALSE, region |-> UsaStr("West")],
      [fips |-> "03", name |-> "American Samoa", abbr |-> "AS", valid |-> FALSE, state |-> FALSE,
       contiguous |-> FALSE, territory |-> TRUE, region |-> UsaNone],
      [fips |-> "36", name |-> "New York", abbr |-> "NY", valid |-> TRUE, state |-> TRUE,
       contiguous |-> TRUE, territory |-> FALSE, region |-> UsaStr("Northeast")],
      [fips |-> "72", name |-> "Puerto Rico", abbr |-> "PR", valid |-> TRUE, state |-> FALSE,
       contiguous |-> FALSE, territory |-> TRUE, region |-> UsaStr("Inhabited Territory")]>>

DigitChars == <<"0", "1", "2", "3", "4", "5", "6", "7", "8", "9">>

RECURSIVE LeadingTwo(_)
LeadingTwo(n) == IF n < 100 THEN n ELSE LeadingTwo(n \div 10)

\* line 187: str(f).zfill(2)[:2], of an int that is not negative
Zfill2(n) ==
    DigitChars[(LeadingTwo(n) \div 10) + 1] \o DigitChars[(LeadingTwo(n) % 10) + 1]

\* _process_return, lines 290-319
ProcessReturn(filter_juris, to_return, w) ==
    IF filter_juris.t = "None" \/ Len(filter_juris.v) = 0
    THEN UsaResult("none", UsaNone, Append(w, "no_match"))
    ELSE IF to_return.t = "None"
    THEN UsaResult("UnboundLocalError", UsaNone, w)
    ELSE LET rows == filter_juris.v
             keyed == to_return.v \in {"fips", "name", "abbr"}
             juris_return == IF keyed THEN [i \in 1..Len(rows) |-> rows[i][to_return.v]]
                             ELSE rows
             w2 == IF ~keyed /\ to_return.v \notin {"object", "dict", "_ignore"}
                   THEN Append(w, "invalid_to_return") ELSE w
         IN  IF Len(juris_return) = 1 /\ to_return.v /= "_ignore"
             THEN UsaResult("none", [t |-> "item", v |-> juris_return[1]], w2)
             ELSE UsaResult("none", UsaList(juris_return), w2)

\* _filter_bool, lines 152-161, to_filter given
FilterBool(value, key, to_filter, to_return, w) ==
    IF value.t /= "bool"
    THEN UsaResult("none", UsaNone, Append(w, "invalid_" \o key))
    ELSE ProcessReturn(UsaList(SelectSeq(to_filter, LAMBDA j : j[key] = value.v)),
                       to_return, w)

\* the jurisdictions property, lines 44-45
Jurisdictions == FilterBool(UsaBool(TRUE), "valid", UsaJson, UsaStr("object"), <<>>)

\* filter_fips, lines 177-196, of one int or one str of two characters
FilterFips(fips, to_filter, to_return, w) ==
    LET fips_clean == IF fips.t = "int" THEN {Zfill2(fips.v)}
                      ELSE IF fips.t = "str" THEN {fips.v} ELSE {}
        w2 == IF fips.t \in {"int", "str"} THEN w ELSE Append(w, "invalid_fips")
    IN  ProcessReturn(UsaList(SelectSeq(to_filter, LAMBDA j : j.fips \in fips_clean)),
                      to_return, w2)

\* _distinct_options, lines 60-69, as a set
DistinctOptions(key) ==
    {Jurisdictions.val.v[i][key].v :
        i \in {k \in 1..Len(Jurisdictions.val.v) : Jurisdictions.val.v[k][key].t /= "None"}}

\* _filter_categorical, lines 257-278, of one input
FilterCategorical(input, key, to_filter, to_return, w) ==
    LET ok == input.t = "str" /\ input.v \in DistinctOptions(key)
        input_clean == IF ok THEN {input} ELSE {}
        w2 == IF ok THEN w ELSE Append(w, "invalid_" \o key)
    IN  ProcessReturn(UsaList(SelectSeq(to_filter, LAMBDA j : j[key] \in input_clean)),
                      to_return, w2)

UsaBoolKeys == {"valid", "state", "contiguous", "territory"}

\* one of the steps of lines 113-143: the test of the criterion and of
\* len(filter_juris), and the call it guards
FilterStep(cur, a, key) ==
    IF cur.err /= "none" \/ a[key].t = "None" THEN cur
    ELSE IF cur.val.t = "None" THEN UsaResult("TypeError", UsaNone, cur.warns)
    ELSE IF Len(cur.val.v) = 0 THEN cur
    ELSE IF key \in UsaBoolKeys
    THEN FilterBool(a[key], key, cur.val.v, UsaStr("_ignore"), cur.warns)
    ELSE IF key = "fips"
    THEN FilterFips(a[key], cur.val.v, UsaStr("_ignore"), cur.warns)
    ELSE FilterCategorical(a[key], key, cur.val.v, UsaStr("_ignore"), cur.warns)

\* the criteria in the order filter applies them; name, abbr, division, omb
\* and bea are left at None
FilterKeys == <<"valid", "fips", "state", "contiguous", "territory", "region">>

RECURSIVE FilterSteps(_, _, _)
FilterSteps(cur, a, k) ==
    IF k > Len(FilterKeys) THEN cur
    ELSE FilterSteps(FilterStep(cur, a, FilterKeys[k]), a, k + 1)

\* filter, lines 94-148
Filter(a) ==
    LET filter_juris == IF Jurisdictions.val.t = "None"
                        THEN UsaResult("AttributeError", UsaNone, Jurisdictions.warns)
                        ELSE Jurisdictions
        last == FilterSteps(filter_juris, a, 1)
    IN  IF last.err /= "none" THEN last
        ELSE ProcessReturn(last.val, a.to_return, last.warns)

OptBool == {UsaNone, UsaBool(TRUE), UsaBool(FALSE)}

MaxFips == 3

FilterArgs ==
    [valid : OptBool,
     fips : {UsaNone, UsaStr("36"), UsaInt(72), UsaInt(99), UsaInt(360)}
              \cup {UsaInt(n) : n \in 1..MaxFips},
     state : OptBool,
     contiguous : OptBool,
     territory : OptBool,
     region : {UsaNone, UsaStr("South"), UsaStr("West"), UsaStr("Mars")},
     to_return : {UsaNone, UsaStr("fips"), UsaStr("name"), UsaStr("object"), UsaStr("xml")}]

InitFilter ==
    /\ pc = "call"
    /\ op = "filter"
    /\ args \in FilterArgs
    /\ ret = [err |-> "none", val |-> UsaNone]
    /\ warns = <<>>

CallFilter ==
    /\ pc = "call"
    /\ op = "filter"
    /\ ret' = [err |-> Filter(args).err, val |-> Filter(args).val]
    /\ warns' = Filter(args).warns
    /\ pc' = "done"
    /\ UNCHANGED <<op, args>>

SpecFilter == InitFilter /\ [][CallFilter]_vars

\* a valid row that the k first criteria of the call all accept; an integer
\* names the code that its two leading digits spell
C30_Accepts(row, k) ==
    /\ row.valid
    /\ \A i \in 1..k :
         LET key == FilterKeys[i]
         IN  \/ args[key].t = "None"
             \/ (key \in UsaBoolKeys /\ row[key] = args[key].v)
             \/ (key = "fips" /\ args.fips.t = "str" /\ row.fips = args.fips.v)
             \/ (key = "fips" /\ args.fips.t = "int"
                   /\ \E d, e \in 1..10 : /\ row.fips = DigitChars[d] \o DigitChars[e]
                                          /\ \E p \in {1, 10, 100} :
                                               /\ (d - 1) * 10 + (e - 1) = args.fips.v \div p
                                               /\ (p = 1 \/ d > 1))
             \/ (key = "region" /\ row.region = args.region)

C30_Matched(k) == {i \in 1..Len(UsaJson) : C30_Accepts(UsaJson[i], k)}

C30_Warned == \E i \in 1..Len(warns) : warns[i] = "no_match"

\* C30: USA.filter never raises on an empty match: whenever the criteria of a
\* call match no jurisdiction - an earlier criterion matching nothing with
\* later criteria supplied included - filter returns None after a warning.
C30_EmptyNeverRaises ==
    (pc = "done" /\ C30_Matched(Len(FilterKeys)) = {}) =>
        (ret.err = "none" /\ ret.val = UsaNone /\ C30_Warned)

\* what holds instead: an empty match returns None after the warning when no
\* criterion is supplied after the first one that leaves nothing ...
C30_EmptyAtLastCriterion ==
    (/\ pc = "done"
     /\ C30_Matched(Len(FilterKeys)) = {}
     /\ \A k \in 1..Len(FilterKeys) :
          C30_Matched(k) = {} =>
              \A l \in (k + 1)..Len(FilterKeys) : args[FilterKeys[l]].t = "None") =>
        (ret.err = "none" /\ ret.val = UsaNone /\ C30_Warned)

\* ... and the call raises TypeError exactly when one is
C30_RaisesOnLaterCriterion ==
    pc = "done" =>
        (ret.err = "TypeError" <=>
            \E k \in 1..Len(FilterKeys) :
                /\ C30_Matched(k) = {}
                /\ \E l \in (k + 1)..Len(FilterKeys) : args[FilterKeys[l]].t /= "None")

====
